---------------------------- MODULE Spec2Model ----------------------------
(***************************************************************************)
(* Model of the project-scoped file-access handlers of claude-code-webui:  *)
(* handleFilesList, handleFileContent, handleFileDownload and the helpers  *)
(* they call (safeResolvePath, getFileExtension, getMimeType, isTextFile,  *)
(* isImageFile, getProjectPathFromEncodedName).                            *)
(*                                                                         *)
(* A JavaScript string is a sequence of one-character strings, so that     *)
(* includes / startsWith / split / join / replace are computed on the      *)
(* characters as the code computes them.                                   *)
(***************************************************************************)
EXTENDS Integers, Sequences, FiniteSets, TLC

(***************************************************************************)
(* Bounds of the model.                                                    *)
(***************************************************************************)
\* A request path is made of at most MaxSegs "/"-separated pieces.
MaxSegs == 2

(***************************************************************************)
(* JavaScript string primitives.                                           *)
(***************************************************************************)
Slash == "/"
Dot == "."

\* String.prototype.startsWith
startsWith(s, pre) ==
    /\ Len(pre) <= Len(s)
    /\ SubSeq(s, 1, Len(pre)) = pre

\* String.prototype.endsWith
endsWith(s, suf) ==
    /\ Len(suf) <= Len(s)
    /\ SubSeq(s, Len(s) - Len(suf) + 1, Len(s)) = suf

\* String.prototype.includes
includes(s, sub) ==
    \E i \in 1..(Len(s) - Len(sub) + 1) : SubSeq(s, i, i + Len(sub) - 1) = sub

\* String.prototype.lastIndexOf(ch), 1-based; 0 when ch does not occur (JS: -1)
lastIndexOf(s, ch) ==
    IF \E i \in 1..Len(s) : s[i] = ch
    THEN CHOOSE i \in 1..Len(s) : s[i] = ch /\ \A j \in (i+1)..Len(s) : s[j] # ch
    ELSE 0

\* String.prototype.split(sep) for a one-character separator: "" gives [""]
RECURSIVE split(_, _)
split(s, sep) ==
    IF \E i \in 1..Len(s) : s[i] = sep
    THEN LET i == CHOOSE k \in 1..Len(s) : s[k] = sep /\ \A j \in 1..(k-1) : s[j] # sep
         IN  <<SubSeq(s, 1, i - 1)>> \o split(SubSeq(s, i + 1, Len(s)), sep)
    ELSE <<s>>

\* Array.prototype.join(sep): [] gives ""
RECURSIVE join(_, _)
join(parts, sep) ==
    IF Len(parts) = 0 THEN <<>>
    ELSE IF Len(parts) = 1 THEN parts[1]
    ELSE parts[1] \o <<sep>> \o join(Tail(parts), sep)

\* relativePath.replace(/^\/+/, "")
RECURSIVE stripLeadingSlashes(_)
stripLeadingSlashes(s) ==
    IF Len(s) > 0 /\ s[1] = Slash THEN stripLeadingSlashes(Tail(s)) ELSE s

lowerOf(c) ==
    CASE c = "A" -> "a" [] c = "B" -> "b" [] c = "C" -> "c" [] c = "D" -> "d"
      [] c = "E" -> "e" [] c = "F" -> "f" [] c = "G" -> "g" [] c = "H" -> "h"
      [] c = "I" -> "i" [] c = "J" -> "j" [] c = "K" -> "k" [] c = "L" -> "l"
      [] c = "M" -> "m" [] c = "N" -> "n" [] c = "O" -> "o" [] c = "P" -> "p"
      [] c = "Q" -> "q" [] c = "R" -> "r" [] c = "S" -> "s" [] c = "T" -> "t"
      [] c = "U" -> "u" [] c = "V" -> "v" [] c = "W" -> "w" [] c = "X" -> "x"
      [] c = "Y" -> "y" [] c = "Z" -> "z" [] OTHER -> c

\* String.prototype.toLowerCase
toLowerCase(s) == [i \in 1..Len(s) |-> lowerOf(s[i])]

(***************************************************************************)
(* Helpers of the file manager handlers.                                   *)
(***************************************************************************)
getFileExtension(filename) ==
    LET lastDot == lastIndexOf(filename, Dot)
    IN  IF lastDot = 0 THEN <<>>
        ELSE toLowerCase(SubSeq(filename, lastDot + 1, Len(filename)))

\* A MIME type "t/s" is the pair <<t, s>>.
OctetStream == <<"application", "octet-stream">>

mimeTypes ==
    ( <<"t","x","t">> :> <<"text", "plain">>
   @@ <<"m","d">> :> <<"text", "markdown">>
   @@ <<"j","s","o","n">> :> <<"application", "json">>
   @@ <<"j","s">> :> <<"application", "javascript">>
   @@ <<"t","s">> :> <<"application", "typescript">>
   @@ <<"j","s","x">> :> <<"application", "javascript">>
   @@ <<"t","s","x">> :> <<"application", "typescript">>
   @@ <<"h","t","m","l">> :> <<"text", "html">>
   @@ <<"c","s","s">> :> <<"text", "css">>
   @@ <<"x","m","l">> :> <<"application", "xml">>
   @@ <<"y","a","m","l">> :> <<"text", "yaml">>
   @@ <<"y","m","l">> :> <<"text", "yaml">>
   @@ <<"t","o","m","l">> :> <<"text", "toml">>
   @@ <<"i","n","i">> :> <<"text", "plain">>
   @@ <<"l","o","g">> :> <<"text", "plain">>
   @@ <<"j","p","g">> :> <<"image", "jpeg">>
   @@ <<"j","p","e","g">> :> <<"image", "jpeg">>
   @@ <<"p","n","g">> :> <<"image", "png">>
   @@ <<"g","i","f">> :> <<"image", "gif">>
   @@ <<"b","m","p">> :> <<"image", "bmp">>
   @@ <<"s","v","g">> :> <<"image", "svg+xml">>
   @@ <<"w","e","b","p">> :> <<"image", "webp">>
   @@ <<"i","c","o">> :> <<"image", "x-icon">>
   @@ <<"p","d","f">> :> <<"application", "pdf">>
   @@ <<"d","o","c">> :> <<"application", "msword">>
   @@ <<"d","o","c","x">> :>
        <<"application", "vnd.openxmlformats-officedocument.wordprocessingml.document">>
   @@ <<"z","i","p">> :> <<"application", "zip">>
   @@ <<"t","a","r">> :> <<"application", "x-tar">>
   @@ <<"g","z">> :> <<"application", "gzip">>
   @@ <<"m","p","3">> :> <<"audio", "mpeg">>
   @@ <<"m","p","4">> :> <<"video", "mp4">>
   @@ <<"a","v","i">> :> <<"video", "x-msvideo">>
   @@ <<"m","o","v">> :> <<"video", "quicktime">> )

getMimeType(extension) ==
    IF extension \in DOMAIN mimeTypes THEN mimeTypes[extension] ELSE OctetStream

isTextFile(mimeType) ==
    \/ mimeType[1] = "text"
    \/ mimeType = <<"application", "json">>
    \/ mimeType = <<"application", "javascript">>
    \/ mimeType = <<"application", "typescript">>
    \/ mimeType = <<"application", "xml">>

isImageFile(mimeType) == mimeType[1] = "image"

keepPart(part) == part # <<>> /\ part # <<".">> /\ part # <<".", ".">>

\* Mutant of safeResolvePath: the filter forgets the ".." segment.
keepPart_dotDot(part) == part # <<>> /\ part # <<".">>

safeResolvePath_keepDotDot(basePath, relativePath) ==
    LET cleanPath == stripLeadingSlashes(relativePath)
        parts == SelectSeq(split(cleanPath, Slash), keepPart_dotDot)
    IN  basePath \o <<Slash>> \o join(parts, Slash)

safeResolvePath(basePath, relativePath) ==
    LET cleanPath == stripLeadingSlashes(relativePath)
        parts == SelectSeq(split(cleanPath, Slash), keepPart)
    IN  basePath \o <<Slash>> \o join(parts, Slash)


\* Mutant of isTraversal: the leading "/" is not tested.
isTraversal_dotsOnly(path) == includes(path, <<Dot, Dot>>)

\* The boundary check of the three handlers on the caller's path.
isTraversal(path) == includes(path, <<Dot, Dot>>) \/ startsWith(path, <<Slash>>)

\* maxSize of the preview and the small-binary limit, in bytes.
maxSize == 10 * 1024 * 1024
smallBinary == 1024 * 1024

\* Mutant of classify: the small-binary limit is exclusive.
classify_exclusiveSmall(mimeType, size) ==
    IF size > maxSize THEN "TooLarge"
    ELSE IF isTextFile(mimeType) THEN "UTF8"
    ELSE IF isImageFile(mimeType) \/ size < smallBinary THEN "Base64"
    ELSE "Unsupported"

\* Mutant of classify: the ceiling is inclusive.
classify_inclusiveMax(mimeType, size) ==
    IF size >= maxSize THEN "TooLarge"
    ELSE IF isTextFile(mimeType) THEN "UTF8"
    ELSE IF isImageFile(mimeType) \/ size <= smallBinary THEN "Base64"
    ELSE "Unsupported"

\* Mutant of classify: the type is tested before the ceiling.
classify_typeFirst(mimeType, size) ==
    IF isTextFile(mimeType) THEN (IF size > maxSize THEN "TooLarge" ELSE "UTF8")
    ELSE IF isImageFile(mimeType) THEN (IF size > maxSize THEN "TooLarge" ELSE "Base64")
    ELSE IF size <= smallBinary THEN "Base64"
    ELSE "Unsupported"

\* The preview decision of handleFileContent, in the order of its tests.
classify(mimeType, size) ==
    IF size > maxSize THEN "TooLarge"
    ELSE IF isTextFile(mimeType) THEN "UTF8"
    ELSE IF isImageFile(mimeType) \/ size <= smallBinary THEN "Base64"
    ELSE "Unsupported"

(***************************************************************************)
(* Optional values: undefined is <<>>, a defined value v is <<v>>.         *)
(***************************************************************************)
Undefined == <<>>
Some(v) == <<v>>

(***************************************************************************)
(* The filesystem seen through the Runtime: a function from the resolved   *)
(* path (its sequence of names from /) to a node.  A node whose statOk is  *)
(* FALSE is enumerated by readDir but cannot be stat'ed (a dangling link). *)
(***************************************************************************)
\* Path resolution of the operating system on an absolute path.
RECURSIVE osWalk(_, _)
osWalk(segs, acc) ==
    IF Len(segs) = 0 THEN acc
    ELSE LET s == Head(segs)
         IN  IF s = <<>> \/ s = <<Dot>> THEN osWalk(Tail(segs), acc)
             ELSE IF s = <<Dot, Dot>>
                  THEN osWalk(Tail(segs),
                              IF Len(acc) = 0 THEN acc ELSE SubSeq(acc, 1, Len(acc) - 1))
                  ELSE osWalk(Tail(segs), Append(acc, s))

osResolve(path) == osWalk(split(path, Slash), <<>>)

\* Content of a file: the bytes of head followed by pad zero bytes.
Bytes(head, size) == [head |-> head, pad |-> size - Len(head)]
byteLength(buffer) == Len(buffer.head) + buffer.pad
NoBytes == [head |-> <<>>, pad |-> 0]

DirNode == [isFile |-> FALSE, isDirectory |-> TRUE, statOk |-> TRUE,
            mtime |-> Some(7), content |-> NoBytes]
FileNode(head, size, mtime) ==
    [isFile |-> TRUE, isDirectory |-> FALSE, statOk |-> TRUE,
     mtime |-> mtime, content |-> Bytes(head, size)]
DanglingNode == [isFile |-> FALSE, isDirectory |-> FALSE, statOk |-> FALSE,
                 mtime |-> Undefined, content |-> NoBytes]

\* Names of the model's project tree.
nP == <<"p">>
nX == <<"x">>
nY == <<"Y">>
nFmd == <<"f", ".", "m", "d">>
nGpng == <<"g", ".", "P", "N", "G">>
nH == <<"H">>
nK == <<"k">>

\* The project /p: directories x and Y, a text file, a file without extension,
\* and in x an image, a dangling link and a directory named as the project,
\* which holds a text file.  Every regular file has size sz.
ProjectTree(sz) ==
    ( <<nP>> :> DirNode
   @@ <<nP, nX>> :> DirNode
   @@ <<nP, nY>> :> DirNode
   @@ <<nP, nFmd>> :> FileNode(<<35, 32, 104>>, sz, Some(9))
   @@ <<nP, nH>> :> FileNode(<<0, 255, 16>>, sz, Undefined)
   @@ <<nP, nX, nGpng>> :> FileNode(<<137, 80, 78>>, sz, Some(8))
   @@ <<nP, nX, nK>> :> DanglingNode
   @@ <<nP, nX, nP>> :> DirNode
   @@ <<nP, nX, nP, nFmd>> :> FileNode(<<35, 32, 104>>, sz, Some(9)) )

Sizes == {3, smallBinary, smallBinary + 1, maxSize, maxSize + 1}

hasNode(f, path) == osResolve(path) \in DOMAIN f
nodeAt(f, path) == f[osResolve(path)]

\* runtime.exists: FALSE for a missing path, TRUE for one that can be stat'ed;
\* for a node that cannot be stat'ed the Runtime may answer either.
existsResults(f, path) ==
    IF ~hasNode(f, path) THEN {FALSE}
    ELSE IF nodeAt(f, path).statOk THEN {TRUE}
    ELSE {TRUE, FALSE}

\* runtime.stat succeeds
statSucceeds(f, path) == hasNode(f, path) /\ nodeAt(f, path).statOk

\* runtime.stat: the FileStats of a node
statOf(f, path) ==
    LET n == nodeAt(f, path)
    IN  [isFile |-> n.isFile, isDirectory |-> n.isDirectory,
         size |-> byteLength(n.content), mtime |-> n.mtime]

\* runtime.readDir succeeds
readDirSucceeds(f, path) == hasNode(f, path) /\ nodeAt(f, path).isDirectory

\* The DirectoryEntry values of a directory
dirEntries(f, path) ==
    LET key == osResolve(path)
    IN  { [name |-> k[Len(k)], isFile |-> f[k].isFile, isDirectory |-> f[k].isDirectory] :
            k \in { kk \in DOMAIN f :
                      Len(kk) = Len(key) + 1 /\ SubSeq(kk, 1, Len(key)) = key } }

\* Every order in which readDir may yield the entries
enumerations(f, path) ==
    LET es == dirEntries(f, path)
        n == Cardinality(es)
    IN  { s \in [1..n -> es] : \A i, j \in 1..n : i # j => s[i] # s[j] }

(***************************************************************************)
(* ProjectLocator: the registry (~/.claude.json) and the history           *)
(* directories (~/.claude/projects).                                       *)
(***************************************************************************)
homeDir == <<"/", "h">>
claudeConfigPath ==
    homeDir \o <<"/", ".", "c", "l", "a", "u", "d", "e", ".", "j", "s", "o", "n">>
projectsDir ==
    homeDir \o <<"/", ".", "c", "l", "a", "u", "d", "e", "/",
                 "p", "r", "o", "j", "e", "c", "t", "s">>

\* Keys of config.projects, in the order of Object.entries.
Registry == << <<"/", "q">>, <<"/", "p">> >>
\* Directories of ~/.claude/projects.
HistoryDirs == { <<"-", "p">> }

\* The Runtime's context: is the home directory known, can ~/.claude.json be
\* read and parsed, the keys of its projects, and the directories of
\* ~/.claude/projects (Undefined when they cannot be listed).
Env(home, config) ==
    [home |-> home, config |-> config, registry |-> Registry, history |-> Some(HistoryDirs)]

\* normalizedPath.replace(/[/\\:.]/g, "-")
encodeChar(c) == IF c \in {"/", "\\", ":", "."} THEN "-" ELSE c

\* projectPath.replace(/\/$/, "")
stripTrailingSlash(s) ==
    IF Len(s) > 0 /\ s[Len(s)] = Slash THEN SubSeq(s, 1, Len(s) - 1) ELSE s

\* What one filesystem call of a request is: the Runtime method and its path.
Access(op, path) == [op |-> op, path |-> path]

\* Mutant of getEncodedProjectName: the directories of ~/.claude/projects are
\* not consulted.
getEncodedProjectName_unchecked(projectPath, e) ==
    IF ~e.home THEN <<Undefined, <<>>>>
    ELSE LET normalizedPath == stripTrailingSlash(projectPath)
             expectedEncoded ==
                 [i \in 1..Len(normalizedPath) |-> encodeChar(normalizedPath[i])]
         IN  << Some(expectedEncoded), <<Access("readDir", projectsDir)>> >>

\* getEncodedProjectName: <<result, accesses>>; the result is Undefined for null
getEncodedProjectName(projectPath, e) ==
    IF ~e.home THEN <<Undefined, <<>>>>
    ELSE LET normalizedPath == stripTrailingSlash(projectPath)
             expectedEncoded ==
                 [i \in 1..Len(normalizedPath) |-> encodeChar(normalizedPath[i])]
         IN  << IF e.history # Undefined /\ expectedEncoded \in e.history[1]
                THEN Some(expectedEncoded)
                ELSE Undefined,
                <<Access("readDir", projectsDir)>> >>

\* The loop of getProjectPathFromEncodedName over the registry, from entry i
RECURSIVE locateFrom(_, _, _, _)
locateFrom(i, encodedName, e, accesses) ==
    IF i > Len(e.registry) THEN <<Undefined, accesses>>
    ELSE LET r == getEncodedProjectName(e.registry[i], e)
         IN  IF r[1] = Some(encodedName)
             THEN <<Some(e.registry[i]), accesses \o r[2]>>
             ELSE locateFrom(i + 1, encodedName, e, accesses \o r[2])

\* getProjectPathFromEncodedName: <<projectPath or Undefined, accesses>>
getProjectPathFromEncodedName(encodedName, e) ==
    IF ~e.home THEN <<Undefined, <<>>>>
    ELSE IF ~e.config
         THEN <<Undefined, <<Access("readTextFile", claudeConfigPath)>>>>
         ELSE locateFrom(1, encodedName, e,
                         <<Access("readTextFile", claudeConfigPath)>>)

(***************************************************************************)
(* Requests.                                                               *)
(***************************************************************************)
Segs == { <<>>, <<Dot>>, <<Dot, Dot>>, nX, nFmd, nGpng, nH, nK, nP }

\* The paths a caller may send: 1..MaxSegs pieces joined by "/"
Paths == { join(ss, Slash) : ss \in UNION { [1..n -> Segs] : n \in 1..MaxSegs } }

\* The encoded project names a caller may send: none, /p's, /q's
Names == { <<>>, <<"-", "p">>, <<"-", "q">>, <<"-", "p", "<">> }

downloadSuffix == <<"/", "d", "o", "w", "n", "l", "o", "a", "d">>
Suffixes == { <<>>, downloadSuffix }

Ops == {"list", "content", "download"}

NoFileInfo == [name |-> <<>>, path |-> <<>>, type |-> "pending",
               size |-> Undefined, modifiedTime |-> Undefined, extension |-> Undefined]

NoLocals == [projectPath |-> <<>>, filePath |-> <<>>, target |-> <<>>,
             size |-> 0, mimeType |-> OctetStream, encoding |-> "none",
             entries |-> <<>>, pending |-> {}, files |-> <<>>]

NoRequest == [op |-> "none", encodedProjectName |-> <<>>, path |-> <<>>]

NoResponse == [status |-> 0, error |-> "", detail |-> <<>>,
               files |-> <<>>, currentPath |-> <<>>,
               encoding |-> "none", type |-> OctetStream, size |-> 0,
               body |-> NoBytes, content |-> [text |-> <<>>, pad |-> 0],
               contentDisposition |-> <<>>, contentLength |-> 0]

(***************************************************************************)
(* The Content-Disposition header of a download.  A character outside      *)
(* printable ASCII is written by its code point, "U+0009" being the tab,   *)
(* "U+000A" the line feed and "U+00E9" the letter e with an acute accent.  *)
(***************************************************************************)
MaxNameLen == 3

ControlChars == {"U+0009", "U+000A"}
NonAsciiChars == {"U+00E9", "U+65E5"}

\* /[^\x20-\x7E]/ on one character
outsidePrintable(c) == c \in ControlChars \union NonAsciiChars

\* /["\\]/ on one character
quoteOrBackslash(c) == c \in {"\"", "\\"}

\* The UTF-8 encoding of a character that encodeURIComponent escapes.
utf8Bytes(c) ==
    CASE c = "U+0009" -> <<9>>
      [] c = "U+000A" -> <<10>>
      [] c = "U+00E9" -> <<195, 169>>
      [] c = "U+65E5" -> <<230, 151, 165>>
      [] c = " "  -> <<32>>
      [] c = "\"" -> <<34>>
      [] c = "#"  -> <<35>>
      [] c = "$"  -> <<36>>
      [] c = "%"  -> <<37>>
      [] c = "&"  -> <<38>>
      [] c = "+"  -> <<43>>
      [] c = ","  -> <<44>>
      [] c = "/"  -> <<47>>
      [] c = ":"  -> <<58>>
      [] c = ";"  -> <<59>>
      [] c = "<"  -> <<60>>
      [] c = "="  -> <<61>>
      [] c = ">"  -> <<62>>
      [] c = "?"  -> <<63>>
      [] c = "@"  -> <<64>>
      [] c = "["  -> <<91>>
      [] c = "\\" -> <<92>>
      [] c = "]"  -> <<93>>
      [] c = "^"  -> <<94>>
      [] c = "{"  -> <<123>>
      [] c = "|"  -> <<124>>
      [] c = "}"  -> <<125>>

hexDigits == <<"0", "1", "2", "3", "4", "5", "6", "7", "8", "9", "A", "B", "C", "D", "E", "F">>

percentEncoded(byte) == <<"%", hexDigits[(byte \div 16) + 1], hexDigits[(byte % 16) + 1]>>

RECURSIVE percentEncodedAll(_)
percentEncodedAll(bytes) ==
    IF bytes = <<>> THEN <<>>
    ELSE percentEncoded(Head(bytes)) \o percentEncodedAll(Tail(bytes))

\* The characters encodeURIComponent leaves as they are: A-Z a-z 0-9 - _ . ! ~ * ' ( )
uriUnescaped ==
    {"a", "b", "c", "d", "e", "f", "g", "h", "i", "j", "k", "l", "m",
     "n", "o", "p", "q", "r", "s", "t", "u", "v", "w", "x", "y", "z",
     "A", "B", "C", "D", "E", "F", "G", "H", "I", "J", "K", "L", "M",
     "N", "O", "P", "Q", "R", "S", "T", "U", "V", "W", "X", "Y", "Z",
     "0", "1", "2", "3", "4", "5", "6", "7", "8", "9",
     "-", "_", ".", "!", "~", "*", "'", "(", ")"}

RECURSIVE encodeURIComponent(_)
encodeURIComponent(s) ==
    IF s = <<>> THEN <<>>
    ELSE (IF Head(s) \in uriUnescaped THEN <<Head(s)>>
          ELSE percentEncodedAll(utf8Bytes(Head(s))))
         \o encodeURIComponent(Tail(s))

\* filename.replace(/[^\x20-\x7E]/g, "_")
replaceOutsidePrintable(s) ==
    [i \in 1..Len(s) |-> IF outsidePrintable(s[i]) THEN "_" ELSE s[i]]

\* .replace(/["\\]/g, "_")
replaceQuotes(s) ==
    [i \in 1..Len(s) |-> IF quoteOrBackslash(s[i]) THEN "_" ELSE s[i]]

\* Mutant of escapeQuotes: the backslash is left as it is.
RECURSIVE escapeQuotes_quotesOnly(_)
escapeQuotes_quotesOnly(s) ==
    IF s = <<>> THEN <<>>
    ELSE (IF Head(s) = "\"" THEN <<"\\", Head(s)>> ELSE <<Head(s)>>)
         \o escapeQuotes_quotesOnly(Tail(s))

\* filename.replace(/["\\]/g, "\\$&")
RECURSIVE escapeQuotes(_)
escapeQuotes(s) ==
    IF s = <<>> THEN <<>>
    ELSE (IF quoteOrBackslash(Head(s)) THEN <<"\\", Head(s)>> ELSE <<Head(s)>>)
         \o escapeQuotes(Tail(s))

attachmentFilename ==
    <<"a", "t", "t", "a", "c", "h", "m", "e", "n", "t", ";", " ",
      "f", "i", "l", "e", "n", "a", "m", "e", "=", "\"">>

filenameStar ==
    <<"\"", ";", " ", "f", "i", "l", "e", "n", "a", "m", "e", "*", "=",
      "U", "T", "F", "-", "8", "'", "'">>

\* filePath.split("/").pop() || "download"
downloadFilename(filePath) ==
    LET parts == split(filePath, Slash)
        last == parts[Len(parts)]
    IN  IF last # <<>> THEN last ELSE <<"d", "o", "w", "n", "l", "o", "a", "d">>

\* Mutant of contentDisposition: the fallback keeps quotes and backslashes.
contentDisposition_quotesKept(filename) ==
    IF \E i \in 1..Len(filename) : outsidePrintable(filename[i])
    THEN attachmentFilename \o replaceOutsidePrintable(filename)
         \o filenameStar \o encodeURIComponent(filename)
    ELSE attachmentFilename \o escapeQuotes(filename) \o <<"\"">>

contentDisposition(filename) ==
    IF \E i \in 1..Len(filename) : outsidePrintable(filename[i])
    THEN attachmentFilename \o replaceQuotes(replaceOutsidePrintable(filename))
         \o filenameStar \o encodeURIComponent(filename)
    ELSE attachmentFilename \o escapeQuotes(filename) \o <<"\"">>

(***************************************************************************)
(* Upload requests: the multipart form and what handleUpload keeps of it.  *)
(***************************************************************************)
MaxUploads == 2
MaxClock == 2

\* runtime.getCurrentWorkingDirectory()
cwd == <<"/", "w">>

claudeTemp == <<".", "c", "l", "a", "u", "d", "e", "-", "t", "e", "m", "p">>

\* [a-zA-Z0-9.-]
safeNameChars == uriUnescaped \ {"_", "!", "~", "*", "'", "(", ")"}

\* file.name.replace(/[^a-zA-Z0-9.-]/g, "_")
safeFileName(name) == [i \in 1..Len(name) |-> IF name[i] \in safeNameChars THEN name[i] ELSE "_"]

\* Number.prototype.toString of a non-negative integer
RECURSIVE decimal(_)
decimal(n) ==
    IF n < 10 THEN <<hexDigits[n + 1]>>
    ELSE decimal(n \div 10) \o <<hexDigits[(n % 10) + 1]>>

\* A File of the form: its name and its bytes.
File(name, content) == [name |-> name, content |-> content]

NoForm == [file |-> Undefined, sessionId |-> Undefined, workingDirectory |-> Undefined]

NoUploadResponse == [status |-> 0, success |-> FALSE, error |-> "", detail |-> <<>>,
                     filePath |-> <<>>]

\* An upload: pc "none" when no request occupies the slot.
NoUpload == [pc |-> "none", form |-> NoForm, timestamp |-> 0, filePath |-> <<>>,
             resp |-> NoUploadResponse]

\* workingDirectory || runtime.getCurrentWorkingDirectory()
baseDirOf(form) ==
    IF form.workingDirectory # Undefined /\ form.workingDirectory[1] # <<>>
    THEN form.workingDirectory[1] ELSE cwd

\* `${baseDir}/.claude-temp`
tempDirOf(form) == baseDirOf(form) \o <<"/">> \o claudeTemp

\* `${tempDir}/${sessionId}`
sessionDirOf(form) == tempDirOf(form) \o <<"/">> \o form.sessionId[1]

\* `${sessionDir}/${timestamp}_${safeFileName}`
filePathOf(form, timestamp) ==
    sessionDirOf(form) \o <<"/">> \o decimal(timestamp) \o <<"_">>
        \o safeFileName(form.file[1].name)

\* filePath.startsWith(baseDir + "/") ? filePath.substring(baseDir.length + 1) : filePath
relativePathOf(filePath, baseDir) ==
    IF startsWith(filePath, baseDir \o <<"/">>)
    THEN SubSeq(filePath, Len(baseDir) + 2, Len(filePath))
    ELSE filePath

\* Every directory the operating system walks through to reach path exists.
walkable(f, path) ==
    LET segs == split(path, Slash)
    IN  \A k \in 1..(Len(segs) - 1) :
            LET at == osWalk(SubSeq(segs, 1, k), <<>>)
            IN  at = <<>> \/ (at \in DOMAIN f /\ f[at].isDirectory)

\* runtime.mkdir succeeds: the path is new and its parent is a directory.
mkdirSucceeds(f, path) == walkable(f, path) /\ ~hasNode(f, path) /\ osResolve(path) # <<>>

\* The filesystem after runtime.mkdir, whose failure the caller ignores.
mkdir(f, path) ==
    IF mkdirSucceeds(f, path) THEN (osResolve(path) :> DirNode) @@ f ELSE f

\* runtime.writeBinaryFile succeeds: the parent is a directory and the path
\* is new or a file.
writeSucceeds(f, path) ==
    /\ walkable(f, path)
    /\ osResolve(path) # <<>>
    /\ hasNode(f, path) => nodeAt(f, path).isFile

\* The filesystem after runtime.writeBinaryFile
writeBinaryFile(f, path, content, time) ==
    (osResolve(path) :> [isFile |-> TRUE, isDirectory |-> FALSE, statOk |-> TRUE,
                         mtime |-> Some(time), content |-> content]) @@ f

\* /[<>:"|?*\x00-\x1f\/\\]/
dangerousChars == {"<", ">", ":", "\"", "|", "?", "*", "/", "\\"} \union ControlChars

\* validateEncodedProjectName
validateEncodedProjectName(encodedName) ==
    /\ encodedName # <<>>
    /\ \A i \in 1..Len(encodedName) : encodedName[i] \notin dangerousChars

VARIABLES
    env,    \* the Runtime's context: is the home directory known, is the registry readable
    fs,     \* the filesystem
    req,    \* the request being served
    pc,     \* where its handler stands
    loc,    \* the handler's local variables
    log,    \* the filesystem calls the handler has issued, in order
    resp,   \* the response, once the handler has returned
    now,    \* Date.now()
    up,     \* the uploads in flight
    listing,\* the listed file a caller reads back, and the path List used for it
    dialog, \* the FileManagerDialog: its state and its fetches in flight
    picker, \* the FileUpload picker: the calls of handleFileSelect
    chat    \* the ChatInput: its composing flag, the IME and the pending timers

vars == <<env, fs, req, pc, loc, log, resp, now, up, listing, dialog, picker, chat>>

\* The state of the callers (the browser).
client == <<listing, dialog, picker, chat>>

NoListed == [path |-> <<>>, fullPath |-> <<>>]
\* The FileManagerDialog as mounted: its useState values, closed, no fetch
\* in flight and none issued yet.
NoDialog ==
    [isOpen |-> FALSE,
     files |-> <<>>, loading |-> FALSE, error |-> Undefined,
     selectedFile |-> Undefined, fileContent |-> Undefined,
     contentLoading |-> FALSE, contentError |-> Undefined,
     currentPath |-> <<>>,
     fetches |-> {}, issued |-> 0]
\* The FileUpload picker as mounted: the sessionId prop, no call of
\* handleFileSelect yet, and nothing sent, answered or delivered.
NoPicker == [sessionId |-> Undefined, calls |-> <<>>, events |-> <<>>]
\* The ChatInput as mounted: useState(false) for isComposing, the value of
\* useEnterBehavior(), no composition under way in the input method, no
\* deferred reset pending, and no Enter keydown handled yet.
NoChat ==
    [isComposing |-> FALSE, enterBehavior |-> "send",
     composing |-> FALSE, timers |-> 0, keys |-> <<>>]

\* No caller has done anything yet.
clientAtRest ==
    /\ listing = NoListed
    /\ dialog = NoDialog
    /\ picker = NoPicker
    /\ chat = NoChat

\* c.json({ error }, status)
errorResponse(status, message) == [NoResponse EXCEPT !.status = status, !.error = message]

\* The catch block of a handler: 500 with error.message of the thrown Error,
\* which names the failed call's path.
thrownResponse(code, path) ==
    [NoResponse EXCEPT !.status = 500, !.error = code, !.detail = path]

Init ==
    /\ env \in { Env(TRUE, TRUE), Env(FALSE, TRUE), Env(TRUE, FALSE) }
    /\ fs \in { ProjectTree(sz) : sz \in IF env.home /\ env.config THEN Sizes ELSE {3} }
    /\ req = NoRequest
    /\ pc = "idle"
    /\ loc = NoLocals
    /\ log = <<>>
    /\ resp = NoResponse
    /\ clientAtRest
    /\ now = 1
    /\ up = [i \in 1..MaxUploads |-> NoUpload]

\* A request arrives.
Receive ==
    /\ pc = "idle"
    /\ \E op \in Ops, name \in Names, path \in Paths, suffix \in Suffixes :
          /\ suffix # <<>> => op = "download"
          /\ req' = [op |-> op, encodedProjectName |-> name, path |-> path \o suffix]
    /\ pc' = "handler"
    /\ loc' = NoLocals
    /\ log' = <<>>
    /\ resp' = NoResponse
    /\ UNCHANGED <<client, now, up, env, fs>>

Respond(r) ==
    /\ resp' = r
    /\ pc' = "done"

\* The response has been sent: nothing of the request is kept.
Complete ==
    /\ pc = "done"
    /\ req' = NoRequest
    /\ pc' = "idle"
    /\ loc' = NoLocals
    /\ log' = <<>>
    /\ resp' = NoResponse
    /\ UNCHANGED <<client, now, up, env, fs>>

(***************************************************************************)
(* handleFilesList                                                         *)
(***************************************************************************)
\* Up to the first filesystem call on the project tree: the parameter check,
\* the project lookup, the boundary check and the resolution of the target.
ListLocate ==
    /\ pc = "handler" /\ req.op = "list"
    /\ LET encodedProjectName == req.encodedProjectName
           pathParam == req.path
           located == getProjectPathFromEncodedName(encodedProjectName, env)
       IN  IF encodedProjectName = <<>>
           THEN /\ Respond(errorResponse(400, "Project name is required"))
                /\ UNCHANGED <<loc, log>>
           ELSE /\ log' = log \o located[2]
                /\ IF located[1] = Undefined
                   THEN /\ Respond(errorResponse(404, "Project not found"))
                        /\ UNCHANGED loc
                   ELSE IF isTraversal(pathParam)
                   THEN /\ Respond(errorResponse(403, "Access denied: Invalid path"))
                        /\ UNCHANGED loc
                   ELSE LET rootPath == located[1][1]
                        IN  /\ loc' = [loc EXCEPT
                                 !.projectPath = rootPath,
                                 !.filePath = pathParam,
                                 !.target = IF pathParam # <<>>
                                            THEN safeResolvePath(rootPath, pathParam)
                                            ELSE rootPath]
                            /\ pc' = "exists"
                            /\ UNCHANGED resp
    /\ UNCHANGED <<client, now, up, env, fs, req>>

\* Mutant of ListExists: the directory is enumerated without the exists test.
ListExists_noCheck ==
    /\ pc = "exists" /\ req.op = "list"
    /\ log' = Append(log, Access("exists", loc.target))
    /\ pc' = "readDir"
    /\ UNCHANGED <<client, now, up, env, fs, req, loc, resp>>

\* runtime.exists(targetPath) answers
ListExists ==
    /\ pc = "exists" /\ req.op = "list"
    /\ log' = Append(log, Access("exists", loc.target))
    /\ \E directoryExists \in existsResults(fs, loc.target) :
          IF ~directoryExists
          THEN Respond([NoResponse EXCEPT !.status = 200, !.files = <<>>,
                                          !.currentPath = loc.filePath])
          ELSE pc' = "readDir" /\ UNCHANGED resp
    /\ UNCHANGED <<client, now, up, env, fs, req, loc>>

\* The directory is enumerated, in any order, and a stat is issued for each
\* entry (entries.map runs each callback up to its await).
ListReadDir ==
    /\ pc = "readDir" /\ req.op = "list"
    /\ IF ~readDirSucceeds(fs, loc.target)
       THEN /\ log' = Append(log, Access("readDir", loc.target))
            /\ Respond(thrownResponse("readDir failed", loc.target))
            /\ UNCHANGED loc
       ELSE \E entries \in enumerations(fs, loc.target) :
              /\ log' = Append(log, Access("readDir", loc.target))
                         \o [i \in 1..Len(entries) |->
                               Access("stat", loc.target \o <<Slash>> \o entries[i].name)]
              /\ loc' = [loc EXCEPT !.entries = entries,
                                    !.pending = 1..Len(entries),
                                    !.files = [i \in 1..Len(entries) |-> NoFileInfo]]
              /\ pc' = "stats"
              /\ UNCHANGED resp
    /\ UNCHANGED <<client, now, up, env, fs, req>>

\* Mutant of fileInfoOf: path is the absolute path of the entry.
fileInfoOf_fullPath(f, targetPath, pathParam, entry) ==
    LET fullPath == targetPath \o <<Slash>> \o entry.name
        relativePath == IF pathParam # <<>>
                        THEN pathParam \o <<Slash>> \o entry.name
                        ELSE entry.name
        type == IF entry.isDirectory THEN "directory" ELSE "file"
    IN  IF statSucceeds(f, fullPath)
        THEN LET stat == statOf(f, fullPath)
             IN  [name |-> entry.name, path |-> fullPath, type |-> type,
                  size |-> IF entry.isFile THEN Some(stat.size) ELSE Undefined,
                  modifiedTime |-> IF stat.mtime # Undefined
                                   THEN Some(<<"ISO", stat.mtime[1]>>) ELSE Undefined,
                  extension |-> IF entry.isFile THEN Some(getFileExtension(entry.name))
                                ELSE Undefined]
        ELSE [name |-> entry.name, path |-> fullPath, type |-> type,
              size |-> Undefined, modifiedTime |-> Undefined, extension |-> Undefined]

\* Mutant of fileInfoOf: path is the entry's name, without the listed path.
fileInfoOf_nameOnly(f, targetPath, pathParam, entry) ==
    LET fullPath == targetPath \o <<Slash>> \o entry.name
        relativePath == entry.name
        type == IF entry.isDirectory THEN "directory" ELSE "file"
    IN  IF statSucceeds(f, fullPath)
        THEN LET stat == statOf(f, fullPath)
             IN  [name |-> entry.name, path |-> relativePath, type |-> type,
                  size |-> IF entry.isFile THEN Some(stat.size) ELSE Undefined,
                  modifiedTime |-> IF stat.mtime # Undefined
                                   THEN Some(<<"ISO", stat.mtime[1]>>) ELSE Undefined,
                  extension |-> IF entry.isFile THEN Some(getFileExtension(entry.name))
                                ELSE Undefined]
        ELSE [name |-> entry.name, path |-> relativePath, type |-> type,
              size |-> Undefined, modifiedTime |-> Undefined, extension |-> Undefined]

\* The FileInfo of one entry, from its stat or, when the stat throws, without it
fileInfoOf(f, targetPath, pathParam, entry) ==
    LET fullPath == targetPath \o <<Slash>> \o entry.name
        relativePath == IF pathParam # <<>>
                        THEN pathParam \o <<Slash>> \o entry.name
                        ELSE entry.name
        type == IF entry.isDirectory THEN "directory" ELSE "file"
    IN  IF statSucceeds(f, fullPath)
        THEN LET stat == statOf(f, fullPath)
             IN  [name |-> entry.name, path |-> relativePath, type |-> type,
                  size |-> IF entry.isFile THEN Some(stat.size) ELSE Undefined,
                  modifiedTime |-> IF stat.mtime # Undefined
                                   THEN Some(<<"ISO", stat.mtime[1]>>) ELSE Undefined,
                  extension |-> IF entry.isFile THEN Some(getFileExtension(entry.name))
                                ELSE Undefined]
        ELSE [name |-> entry.name, path |-> relativePath, type |-> type,
              size |-> Undefined, modifiedTime |-> Undefined, extension |-> Undefined]

\* Mutant of ListStatDone: a failing stat is not caught and rejects Promise.all.
ListStatDone_noCatch ==
    /\ pc = "stats" /\ req.op = "list"
    /\ \E i \in loc.pending :
          LET fullPath == loc.target \o <<Slash>> \o loc.entries[i].name
          IN  IF statSucceeds(fs, fullPath)
              THEN /\ loc' = [loc EXCEPT
                                !.pending = @ \ {i},
                                !.files[i] = fileInfoOf(fs, loc.target, loc.filePath,
                                                        loc.entries[i])]
                   /\ UNCHANGED <<pc, resp>>
              ELSE /\ Respond(thrownResponse("stat failed", fullPath))
                   /\ UNCHANGED loc
    /\ UNCHANGED <<client, now, up, env, fs, req, log>>

\* One of the pending stats completes; they complete in any order.
ListStatDone ==
    /\ pc = "stats" /\ req.op = "list"
    /\ \E i \in loc.pending :
          loc' = [loc EXCEPT
                    !.pending = @ \ {i},
                    !.files[i] = fileInfoOf(fs, loc.target, loc.filePath, loc.entries[i])]
    /\ UNCHANGED <<client, now, up, env, fs, req, pc, log, resp>>

\* The collation key of a character under localeCompare: punctuation, then
\* digits, then letters without regard to case.
collationOrder ==
    <<"_", "-", ".", "0", "1", "2", "3", "4", "5", "6", "7", "8", "9",
      "a", "b", "c", "d", "e", "f", "g", "h", "i", "j", "k", "l", "m",
      "n", "o", "p", "q", "r", "s", "t", "u", "v", "w", "x", "y", "z">>

primaryKey(c) == CHOOSE i \in 1..Len(collationOrder) : collationOrder[i] = lowerOf(c)
caseKey(c) == IF lowerOf(c) = c THEN 0 ELSE 1

\* Lexicographic comparison of two sequences of integers: -1, 0 or 1
RECURSIVE compareKeys(_, _)
compareKeys(a, b) ==
    IF Len(a) = 0 /\ Len(b) = 0 THEN 0
    ELSE IF Len(a) = 0 THEN -1
    ELSE IF Len(b) = 0 THEN 1
    ELSE IF a[1] < b[1] THEN -1
    ELSE IF a[1] > b[1] THEN 1
    ELSE compareKeys(Tail(a), Tail(b))

\* a.localeCompare(b): the letters decide first, their case only on a tie
localeCompare(a, b) ==
    LET primary == compareKeys([i \in 1..Len(a) |-> primaryKey(a[i])],
                               [i \in 1..Len(b) |-> primaryKey(b[i])])
    IN  IF primary # 0 THEN primary
        ELSE compareKeys([i \in 1..Len(a) |-> caseKey(a[i])],
                         [i \in 1..Len(b) |-> caseKey(b[i])])

\* The comparator of files.sort
compareFiles(a, b) ==
    IF a.type # b.type
    THEN (IF a.type = "directory" THEN -1 ELSE 1)
    ELSE localeCompare(a.name, b.name)

\* Array.prototype.sort, which is stable: insertion into the sorted prefix
RECURSIVE insertSorted(_, _)
insertSorted(sorted, x) ==
    IF Len(sorted) = 0 THEN <<x>>
    ELSE IF compareFiles(sorted[Len(sorted)], x) <= 0 THEN Append(sorted, x)
    ELSE Append(insertSorted(SubSeq(sorted, 1, Len(sorted) - 1), x), sorted[Len(sorted)])

RECURSIVE sortPrefix(_, _)
sortPrefix(files, n) ==
    IF n = 0 THEN <<>> ELSE insertSorted(sortPrefix(files, n - 1), files[n])

\* Mutant of sortFiles: the array is returned as built.
sortFiles_unsorted(files) == files

sortFiles(files) == sortPrefix(files, Len(files))

\* Promise.all has resolved: sort and answer.
ListRespond ==
    /\ pc = "stats" /\ req.op = "list"
    /\ loc.pending = {}
    /\ Respond([NoResponse EXCEPT !.status = 200,
                                  !.files = sortFiles(loc.files),
                                  !.currentPath = loc.filePath])
    /\ UNCHANGED <<client, now, up, env, fs, req, loc, log>>

(***************************************************************************)
(* handleFileContent                                                       *)
(***************************************************************************)
ContentLocate ==
    /\ pc = "handler" /\ req.op = "content"
    /\ LET encodedProjectName == req.encodedProjectName
           pathParam == req.path
           located == getProjectPathFromEncodedName(encodedProjectName, env)
       IN  IF encodedProjectName = <<>> \/ pathParam = <<>>
           THEN /\ Respond(errorResponse(400, "Project name and file path are required"))
                /\ UNCHANGED <<loc, log>>
           ELSE /\ log' = log \o located[2]
                /\ IF located[1] = Undefined
                   THEN /\ Respond(errorResponse(404, "Project not found"))
                        /\ UNCHANGED loc
                   ELSE IF isTraversal(pathParam)
                   THEN /\ Respond(errorResponse(403, "Access denied: Invalid file path"))
                        /\ UNCHANGED loc
                   ELSE /\ loc' = [loc EXCEPT
                                 !.projectPath = located[1][1],
                                 !.filePath = pathParam,
                                 !.target = safeResolvePath(located[1][1], pathParam)]
                        /\ pc' = "exists"
                        /\ UNCHANGED resp
    /\ UNCHANGED <<client, now, up, env, fs, req>>

\* runtime.exists(fullPath) answers
ContentExists ==
    /\ pc = "exists" /\ req.op = "content"
    /\ log' = Append(log, Access("exists", loc.target))
    /\ \E exists \in existsResults(fs, loc.target) :
          IF ~exists
          THEN Respond(errorResponse(404, "File not found"))
          ELSE pc' = "stat" /\ UNCHANGED resp
    /\ UNCHANGED <<client, now, up, env, fs, req, loc>>

\* Mutant of ContentStat: the content is read before the size and type are tested.
ContentStat_readFirst ==
    /\ pc = "stat" /\ req.op = "content"
    /\ LET fullPath == loc.target
           statLog == Append(log, Access("stat", fullPath))
       IN  IF ~statSucceeds(fs, fullPath)
           THEN /\ log' = statLog
                /\ Respond(thrownResponse("stat failed", fullPath))
                /\ UNCHANGED loc
           ELSE LET stat == statOf(fs, fullPath)
                    mimeType == getMimeType(getFileExtension(loc.filePath))
                    decision == classify(mimeType, stat.size)
                    readLog == Append(statLog, Access("readBinaryFile", fullPath))
                IN  IF stat.isDirectory
                    THEN /\ log' = statLog
                         /\ Respond(errorResponse(400, "Cannot read directory content"))
                         /\ UNCHANGED loc
                    ELSE IF decision = "TooLarge"
                    THEN /\ log' = readLog
                         /\ Respond(errorResponse(413, "File too large to preview"))
                         /\ UNCHANGED loc
                    ELSE IF decision = "Unsupported"
                    THEN /\ log' = readLog
                         /\ Respond(errorResponse(415, "File type not supported for preview"))
                         /\ UNCHANGED loc
                    ELSE /\ log' = readLog
                         /\ loc' = [loc EXCEPT
                                      !.size = stat.size,
                                      !.mimeType = mimeType,
                                      !.encoding = IF decision = "UTF8" THEN "utf-8"
                                                   ELSE "base64"]
                         /\ pc' = "read"
                         /\ UNCHANGED resp
    /\ UNCHANGED <<client, now, up, env, fs, req>>

\* runtime.stat(fullPath) answers; the preview decision; the read is issued.
ContentStat ==
    /\ pc = "stat" /\ req.op = "content"
    /\ LET fullPath == loc.target
           statLog == Append(log, Access("stat", fullPath))
       IN  IF ~statSucceeds(fs, fullPath)
           THEN /\ log' = statLog
                /\ Respond(thrownResponse("stat failed", fullPath))
                /\ UNCHANGED loc
           ELSE LET stat == statOf(fs, fullPath)
                    mimeType == getMimeType(getFileExtension(loc.filePath))
                    decision == classify(mimeType, stat.size)
                IN  IF stat.isDirectory
                    THEN /\ log' = statLog
                         /\ Respond(errorResponse(400, "Cannot read directory content"))
                         /\ UNCHANGED loc
                    ELSE IF decision = "TooLarge"
                    THEN /\ log' = statLog
                         /\ Respond(errorResponse(413, "File too large to preview"))
                         /\ UNCHANGED loc
                    ELSE IF decision = "Unsupported"
                    THEN /\ log' = statLog
                         /\ Respond(errorResponse(415, "File type not supported for preview"))
                         /\ UNCHANGED loc
                    ELSE /\ log' = Append(statLog,
                                      Access(IF decision = "UTF8" THEN "readTextFile"
                                             ELSE "readBinaryFile", fullPath))
                         /\ loc' = [loc EXCEPT
                                      !.size = stat.size,
                                      !.mimeType = mimeType,
                                      !.encoding = IF decision = "UTF8" THEN "utf-8"
                                                   ELSE "base64"]
                         /\ pc' = "read"
                         /\ UNCHANGED resp
    /\ UNCHANGED <<client, now, up, env, fs, req>>

\* The alphabet of btoa.
base64Alphabet ==
    <<"A", "B", "C", "D", "E", "F", "G", "H", "I", "J", "K", "L", "M",
      "N", "O", "P", "Q", "R", "S", "T", "U", "V", "W", "X", "Y", "Z",
      "a", "b", "c", "d", "e", "f", "g", "h", "i", "j", "k", "l", "m",
      "n", "o", "p", "q", "r", "s", "t", "u", "v", "w", "x", "y", "z",
      "0", "1", "2", "3", "4", "5", "6", "7", "8", "9", "+", "/">>

\* Mutant of btoa: the last group is not padded with "=".
RECURSIVE btoa_noPadding(_)
btoa_noPadding(bytes) ==
    LET sextet(n) == base64Alphabet[n + 1]
    IN  IF Len(bytes) = 0 THEN <<>>
        ELSE IF Len(bytes) = 1
        THEN <<sextet(bytes[1] \div 4), sextet((bytes[1] % 4) * 16)>>
        ELSE IF Len(bytes) = 2
        THEN <<sextet(bytes[1] \div 4),
               sextet((bytes[1] % 4) * 16 + bytes[2] \div 16),
               sextet((bytes[2] % 16) * 4)>>
        ELSE <<sextet(bytes[1] \div 4),
               sextet((bytes[1] % 4) * 16 + bytes[2] \div 16),
               sextet((bytes[2] % 16) * 4 + bytes[3] \div 64),
               sextet(bytes[3] % 64)>>
             \o btoa_noPadding(SubSeq(bytes, 4, Len(bytes)))

\* btoa(String.fromCharCode(...bytes))
RECURSIVE btoa(_)
btoa(bytes) ==
    LET sextet(n) == base64Alphabet[n + 1]
    IN  IF Len(bytes) = 0 THEN <<>>
        ELSE IF Len(bytes) = 1
        THEN <<sextet(bytes[1] \div 4), sextet((bytes[1] % 4) * 16), "=", "=">>
        ELSE IF Len(bytes) = 2
        THEN <<sextet(bytes[1] \div 4),
               sextet((bytes[1] % 4) * 16 + bytes[2] \div 16),
               sextet((bytes[2] % 16) * 4), "=">>
        ELSE <<sextet(bytes[1] \div 4),
               sextet((bytes[1] % 4) * 16 + bytes[2] \div 16),
               sextet((bytes[2] % 16) * 4 + bytes[3] \div 64),
               sextet(bytes[3] % 64)>>
             \o btoa(SubSeq(bytes, 4, Len(bytes)))

\* The base64 content of a buffer: text, followed by the base64 of pad zero
\* bytes (zero bytes are taken into text up to a multiple of three bytes).
base64Content(buffer) ==
    LET missing == (3 - (Len(buffer.head) % 3)) % 3
        taken == IF buffer.pad < missing THEN buffer.pad ELSE missing
    IN  [text |-> btoa(buffer.head \o [i \in 1..taken |-> 0]), pad |-> buffer.pad - taken]

\* The decoding of readTextFile: the code points of a UTF-8 byte sequence,
\* 65533 (U+FFFD) standing for every ill-formed part.
RECURSIVE utf8Decode(_)
utf8Decode(bytes) ==
    IF bytes = <<>> THEN <<>>
    ELSE LET lead == bytes[1]
             needed == IF lead < 128 THEN 0
                       ELSE IF lead \in 194..223 THEN 1
                       ELSE IF lead \in 224..239 THEN 2
                       ELSE IF lead \in 240..244 THEN 3
                       ELSE 4
             lower(k) == IF k = 1 /\ lead = 224 THEN 160
                         ELSE IF k = 1 /\ lead = 240 THEN 144 ELSE 128
             upper(k) == IF k = 1 /\ lead = 237 THEN 159
                         ELSE IF k = 1 /\ lead = 244 THEN 143 ELSE 191
             continues(k) == k + 1 <= Len(bytes) /\ bytes[k + 1] \in lower(k)..upper(k)
             good == Cardinality({ m \in 1..3 : m <= needed /\ \A k \in 1..m : continues(k) })
             first == IF needed = 1 THEN lead - 192
                      ELSE IF needed = 2 THEN lead - 224 ELSE lead - 240
             point[k \in 0..3] ==
                 IF k = 0 THEN first ELSE point[k - 1] * 64 + (bytes[k + 1] - 128)
         IN  IF needed = 0 THEN <<lead>> \o utf8Decode(Tail(bytes))
             ELSE IF needed = 4 THEN <<65533>> \o utf8Decode(Tail(bytes))
             ELSE IF good = needed
                  THEN <<point[needed]>> \o utf8Decode(SubSeq(bytes, needed + 2, Len(bytes)))
                  ELSE <<65533>> \o utf8Decode(SubSeq(bytes, good + 2, Len(bytes)))

\* The content of readTextFile: text, followed by pad characters U+0000.
textContent(buffer) == [text |-> utf8Decode(buffer.head), pad |-> buffer.pad]

\* The read completes: the content, its type and encoding, and stat.size.
ContentRead ==
    /\ pc = "read" /\ req.op = "content"
    /\ Respond([NoResponse EXCEPT !.status = 200,
                                  !.content = IF loc.encoding = "utf-8"
                                              THEN textContent(nodeAt(fs, loc.target).content)
                                              ELSE base64Content(nodeAt(fs, loc.target).content),
                                  !.type = loc.mimeType,
                                  !.encoding = loc.encoding,
                                  !.size = loc.size])
    /\ UNCHANGED <<client, now, up, env, fs, req, loc, log>>

(***************************************************************************)
(* handleFileDownload                                                      *)
(***************************************************************************)
\* pathParam.endsWith("/download") ? pathParam.slice(0, -9) : pathParam
stripDownload(pathParam) ==
    IF endsWith(pathParam, downloadSuffix)
    THEN SubSeq(pathParam, 1, Len(pathParam) - 9)
    ELSE pathParam

DownloadLocate ==
    /\ pc = "handler" /\ req.op = "download"
    /\ LET encodedProjectName == req.encodedProjectName
           located == getProjectPathFromEncodedName(encodedProjectName, env)
       IN  IF encodedProjectName = <<>> \/ req.path = <<>>
           THEN /\ Respond(errorResponse(400, "Project name and file path are required"))
                /\ UNCHANGED <<loc, log>>
           ELSE LET filePath == stripDownload(req.path)
                IN  /\ log' = log \o located[2]
                    /\ IF located[1] = Undefined
                       THEN /\ Respond(errorResponse(404, "Project not found"))
                            /\ UNCHANGED loc
                       ELSE IF isTraversal(filePath)
                       THEN /\ Respond(errorResponse(403, "Access denied: Invalid file path"))
                            /\ UNCHANGED loc
                       ELSE /\ loc' = [loc EXCEPT
                                     !.projectPath = located[1][1],
                                     !.filePath = filePath,
                                     !.target = safeResolvePath(located[1][1], filePath)]
                            /\ pc' = "exists"
                            /\ UNCHANGED resp
    /\ UNCHANGED <<client, now, up, env, fs, req>>

\* Mutant of DownloadExists: the answer of exists is not tested.
DownloadExists_notTested ==
    /\ pc = "exists" /\ req.op = "download"
    /\ log' = Append(log, Access("exists", loc.target))
    /\ pc' = "stat"
    /\ UNCHANGED <<client, now, up, env, fs, req, loc, resp>>

\* runtime.exists(fullPath) answers
DownloadExists ==
    /\ pc = "exists" /\ req.op = "download"
    /\ log' = Append(log, Access("exists", loc.target))
    /\ \E exists \in existsResults(fs, loc.target) :
          IF ~exists
          THEN Respond(errorResponse(404, "File not found"))
          ELSE pc' = "stat" /\ UNCHANGED resp
    /\ UNCHANGED <<client, now, up, env, fs, req, loc>>

\* Mutant of DownloadStat: the preview's ceiling is applied to downloads.
DownloadStat_withCeiling ==
    /\ pc = "stat" /\ req.op = "download"
    /\ LET fullPath == loc.target
           statLog == Append(log, Access("stat", fullPath))
       IN  IF ~statSucceeds(fs, fullPath)
           THEN /\ log' = statLog
                /\ Respond(thrownResponse("stat failed", fullPath))
                /\ UNCHANGED loc
           ELSE IF statOf(fs, fullPath).isDirectory
           THEN /\ log' = statLog
                /\ Respond(errorResponse(400, "Cannot download directory"))
                /\ UNCHANGED loc
           ELSE IF statOf(fs, fullPath).size > maxSize
           THEN /\ log' = statLog
                /\ Respond(errorResponse(413, "File too large to preview"))
                /\ UNCHANGED loc
           ELSE /\ log' = Append(statLog, Access("readBinaryFile", fullPath))
                /\ pc' = "read"
                /\ UNCHANGED <<loc, resp>>
    /\ UNCHANGED <<client, now, up, env, fs, req>>

\* runtime.stat(fullPath) answers; the read of the whole file is issued.
DownloadStat ==
    /\ pc = "stat" /\ req.op = "download"
    /\ LET fullPath == loc.target
           statLog == Append(log, Access("stat", fullPath))
       IN  IF ~statSucceeds(fs, fullPath)
           THEN /\ log' = statLog
                /\ Respond(thrownResponse("stat failed", fullPath))
                /\ UNCHANGED loc
           ELSE IF statOf(fs, fullPath).isDirectory
           THEN /\ log' = statLog
                /\ Respond(errorResponse(400, "Cannot download directory"))
                /\ UNCHANGED loc
           ELSE /\ log' = Append(statLog, Access("readBinaryFile", fullPath))
                /\ pc' = "read"
                /\ UNCHANGED <<loc, resp>>
    /\ UNCHANGED <<client, now, up, env, fs, req>>

\* The read completes: the buffer is the body, Content-Length its length.
DownloadRead ==
    /\ pc = "read" /\ req.op = "download"
    /\ LET buffer == nodeAt(fs, loc.target).content
           filename == downloadFilename(loc.filePath)
       IN  Respond([NoResponse EXCEPT !.status = 200,
                                      !.body = buffer,
                                      !.type = getMimeType(getFileExtension(filename)),
                                      !.contentDisposition = contentDisposition(filename),
                                      !.contentLength = byteLength(buffer)])
    /\ UNCHANGED <<client, now, up, env, fs, req, loc, log>>

(***************************************************************************)
(* handleUpload, one instance per upload in flight.                        *)
(***************************************************************************)
UploadRespond(i, r) == up' = [up EXCEPT ![i].pc = "done", ![i].resp = r]

\* c.json({ success: false, error }, status)
uploadError(status, message) ==
    [NoUploadResponse EXCEPT !.status = status, !.error = message]

\* Mutant of UploadStart: an empty session identifier is accepted.
UploadStart_emptyAccepted(i) ==
    /\ up[i].pc = "received"
    /\ IF up[i].form.file = Undefined
       THEN UploadRespond(i, uploadError(400, "No file provided"))
       ELSE IF up[i].form.sessionId = Undefined
            THEN UploadRespond(i, uploadError(400, "No session ID provided"))
            ELSE up' = [up EXCEPT ![i].pc = "mkdirTemp"]
    /\ UNCHANGED <<client, now, env, fs, req, pc, loc, log, resp>>

\* Mutant of UploadStart: the temporary directory is created before the form
\* is validated.
UploadStart_mkdirFirst(i) ==
    /\ up[i].pc = "received"
    /\ fs' = mkdir(fs, tempDirOf(up[i].form))
    /\ IF up[i].form.file = Undefined
       THEN UploadRespond(i, uploadError(400, "No file provided"))
       ELSE IF up[i].form.sessionId = Undefined \/ up[i].form.sessionId[1] = <<>>
            THEN UploadRespond(i, uploadError(400, "No session ID provided"))
            ELSE up' = [up EXCEPT ![i].pc = "mkdirTemp"]
    /\ UNCHANGED <<client, now, env, req, pc, loc, log, resp>>

\* The form is parsed; a request without file or sessionId is answered 400.
UploadStart(i) ==
    /\ up[i].pc = "received"
    /\ IF up[i].form.file = Undefined
       THEN UploadRespond(i, uploadError(400, "No file provided"))
       ELSE IF up[i].form.sessionId = Undefined \/ up[i].form.sessionId[1] = <<>>
            THEN UploadRespond(i, uploadError(400, "No session ID provided"))
            ELSE up' = [up EXCEPT ![i].pc = "mkdirTemp"]
    /\ UNCHANGED <<client, now, env, fs, req, pc, loc, log, resp>>

\* try { await runtime.mkdir(tempDir) } catch {}
UploadMkdirTemp(i) ==
    /\ up[i].pc = "mkdirTemp"
    /\ fs' = mkdir(fs, tempDirOf(up[i].form))
    /\ up' = [up EXCEPT ![i].pc = "mkdirSession"]
    /\ UNCHANGED <<client, now, env, req, pc, loc, log, resp>>

\* try { await runtime.mkdir(sessionDir) } catch {}; then the name of the
\* staged file is fixed from Date.now().
UploadMkdirSession(i) ==
    /\ up[i].pc = "mkdirSession"
    /\ fs' = mkdir(fs, sessionDirOf(up[i].form))
    /\ up' = [up EXCEPT ![i].pc = "write",
                        ![i].timestamp = now,
                        ![i].filePath = filePathOf(up[i].form, now)]
    /\ UNCHANGED <<client, now, env, req, pc, loc, log, resp>>

\* Mutant of UploadWrite: the absolute filePath is returned.
UploadWrite_absolute(i) ==
    /\ up[i].pc = "write"
    /\ IF writeSucceeds(fs, up[i].filePath)
       THEN /\ fs' = writeBinaryFile(fs, up[i].filePath, up[i].form.file[1].content, now)
            /\ UploadRespond(i, [NoUploadResponse EXCEPT
                    !.status = 200, !.success = TRUE, !.filePath = up[i].filePath])
       ELSE /\ UploadRespond(i, [uploadError(500, "ENOENT") EXCEPT !.detail = up[i].filePath])
            /\ UNCHANGED fs
    /\ UNCHANGED <<client, now, env, req, pc, loc, log, resp>>

\* await runtime.writeBinaryFile(filePath, content): the relative path is
\* returned, or the catch block answers 500 with the error's message.
UploadWrite(i) ==
    /\ up[i].pc = "write"
    /\ IF writeSucceeds(fs, up[i].filePath)
       THEN /\ fs' = writeBinaryFile(fs, up[i].filePath, up[i].form.file[1].content, now)
            /\ UploadRespond(i, [NoUploadResponse EXCEPT
                    !.status = 200, !.success = TRUE,
                    !.filePath = relativePathOf(up[i].filePath, baseDirOf(up[i].form))])
       ELSE /\ UploadRespond(i, [uploadError(500, "ENOENT") EXCEPT !.detail = up[i].filePath])
            /\ UNCHANGED fs
    /\ UNCHANGED <<client, now, env, req, pc, loc, log, resp>>

\* Date.now() advances.
Tick ==
    /\ now < MaxClock
    /\ now' = now + 1
    /\ UNCHANGED <<client, up, env, fs, req, pc, loc, log, resp>>

Next ==
    \/ Receive \/ Complete
    \/ ListLocate \/ ListExists \/ ListReadDir \/ ListStatDone \/ ListRespond
    \/ ContentLocate \/ ContentExists \/ ContentStat \/ ContentRead
    \/ DownloadLocate \/ DownloadExists \/ DownloadStat \/ DownloadRead

Spec == Init /\ [][Next]_vars

(***************************************************************************)
(* The header builder on its own: lines 372-400 of handleFileDownload      *)
(* applied to every short filePath over HeaderChars.                       *)
(***************************************************************************)
HeaderChars == {"a", ".", " ", "\"", "\\", "/", "U+0009", "U+000A", "U+00E9", "U+65E5"}

HeaderPaths == UNION { [1..n -> HeaderChars] : n \in 0..MaxNameLen }

InitHeader ==
    /\ env = Env(TRUE, TRUE)
    /\ fs = ProjectTree(3)
    /\ req \in { [op |-> "download", encodedProjectName |-> <<"-", "p">>, path |-> p] :
                 p \in HeaderPaths }
    /\ pc = "header"
    /\ loc = NoLocals
    /\ log = <<>>
    /\ resp = NoResponse
    /\ clientAtRest
    /\ now = 1
    /\ up = [i \in 1..MaxUploads |-> NoUpload]

BuildHeader ==
    /\ pc = "header"
    /\ LET filename == downloadFilename(req.path)
       IN  Respond([NoResponse EXCEPT !.status = 200,
                                      !.type = getMimeType(getFileExtension(filename)),
                                      !.contentDisposition = contentDisposition(filename)])
    /\ UNCHANGED <<client, now, up, env, fs, req, loc, log>>

NextHeader == BuildHeader

SpecHeader == InitHeader /\ [][NextHeader]_vars

(***************************************************************************)
(* The locator on its own: getProjectPathFromEncodedName for every         *)
(* registry of up to MaxRegistry paths and every set of history            *)
(* directories.                                                            *)
(***************************************************************************)
MaxRegistry == 2

LocatorPaths ==
    { <<"/", "p">>, <<"/", "p", "/">>, <<"/", "a", ".", "b">>, <<"/", "a", "/", "b">>,
      <<"C", ":", "\\", "q">> }

LocatorNames ==
    { <<"-", "p">>, <<"-", "p", "-">>, <<"-", "a", "-", "b">>, <<"C", "-", "-", "q">> }

LocatorEnvs ==
    { [home |-> h, config |-> c, registry |-> r, history |-> d] :
        h \in BOOLEAN, c \in BOOLEAN,
        r \in UNION { [1..n -> LocatorPaths] : n \in 0..MaxRegistry },
        d \in {Undefined} \union { Some(ds) : ds \in SUBSET LocatorNames } }

InitLocator ==
    /\ env \in LocatorEnvs
    /\ fs = ProjectTree(3)
    /\ req \in { [op |-> "locate", encodedProjectName |-> name, path |-> <<>>] :
                 name \in LocatorNames }
    /\ pc = "locate"
    /\ loc = NoLocals
    /\ log = <<>>
    /\ resp = NoResponse
    /\ clientAtRest
    /\ now = 1
    /\ up = [i \in 1..MaxUploads |-> NoUpload]

\* const projectPath = await getProjectPathFromEncodedName(...);
\* if (!projectPath) return 404
Locate ==
    /\ pc = "locate"
    /\ LET located == getProjectPathFromEncodedName(req.encodedProjectName, env)
       IN  /\ log' = located[2]
           /\ IF located[1] = Undefined
              THEN /\ Respond(errorResponse(404, "Project not found"))
                   /\ UNCHANGED loc
              ELSE /\ loc' = [loc EXCEPT !.projectPath = located[1][1]]
                   /\ pc' = "located"
                   /\ UNCHANGED resp
    /\ UNCHANGED <<client, now, up, env, fs, req>>

NextLocator == Locate

SpecLocator == InitLocator /\ [][NextLocator]_vars

(***************************************************************************)
(* Uploads.  SpecUpload: MaxUploads requests served concurrently while the *)
(* clock advances.  SpecStaged: one upload, then List, ReadContent and     *)
(* Download requests on what it staged.                                    *)
(***************************************************************************)
UploadNames ==
    { <<"a", ".", "m", "d">>, <<"a", " ", "b">>, <<"a", "_", "b">> }

\* Payloads: ASCII text, bytes that are not UTF-8, and sizes beyond the
\* limits of the preview.
UploadContents ==
    { Bytes(<<104, 105>>, 2), Bytes(<<195, 169, 255>>, 3),
      Bytes(<<1, 2, 3>>, smallBinary + 1), Bytes(<<1, 2, 3>>, maxSize + 1) }

SessionIds == { Undefined, Some(<<>>), Some(<<"s">>), Some(<<".", ".", "/", "x">>) }

WorkingDirectories == { Undefined, Some(<<"/", "p">>) }

Forms(names, contents, sessionIds) ==
    [ file : {Undefined} \union { Some(File(n, c)) : n \in names, c \in contents },
      sessionId : sessionIds,
      workingDirectory : WorkingDirectories ]

Received(form) == [NoUpload EXCEPT !.pc = "received", !.form = form]

\* The project tree and the server's working directory /w.
UploadTree == (<< <<"w">> >> :> DirNode) @@ ProjectTree(3)

\* Names that differ only in a character the sanitisation replaces, two
\* payloads, one session.
ConcurrentForms ==
    Forms({<<"a", " ", "b">>, <<"a", "_", "b">>},
          {Bytes(<<104, 105>>, 2), Bytes(<<195, 169, 255>>, 3)},
          {Some(<<"s">>)})

InitUpload ==
    /\ env = Env(TRUE, TRUE)
    /\ fs = UploadTree
    /\ req = NoRequest
    /\ pc = "idle"
    /\ loc = NoLocals
    /\ log = <<>>
    /\ resp = NoResponse
    /\ clientAtRest
    /\ now = 1
    /\ up \in [1..MaxUploads -> { Received(f) : f \in ConcurrentForms }]

NextUpload ==
    \/ \E i \in 1..MaxUploads : UploadStart(i)
    \/ \E i \in 1..MaxUploads : UploadMkdirTemp(i)
    \/ \E i \in 1..MaxUploads : UploadMkdirSession(i)
    \/ \E i \in 1..MaxUploads : UploadWrite(i)
    \/ Tick

SpecUpload == InitUpload /\ [][NextUpload]_vars

Instants == {7, 1024}

InitStaged ==
    /\ env = Env(TRUE, TRUE)
    /\ fs = UploadTree
    /\ req = NoRequest
    /\ pc = "idle"
    /\ loc = NoLocals
    /\ log = <<>>
    /\ resp = NoResponse
    /\ clientAtRest
    /\ now \in Instants
    /\ up \in { [i \in 1..MaxUploads |-> IF i = 1 THEN Received(f) ELSE NoUpload] :
                f \in Forms(UploadNames, UploadContents, SessionIds) }

\* The directory part of a path: what precedes its last "/".
dirname(path) == SubSeq(path, 1, lastIndexOf(path, Slash) - 1)

\* A request on the staged file, on its directory, or on a path of the
\* project that is refused or missing.
ReceiveStaged ==
    /\ pc = "idle"
    /\ up[1].pc = "done" /\ up[1].resp.success
    /\ \E op \in Ops, path \in {up[1].resp.filePath, dirname(up[1].resp.filePath), <<Dot, Dot>>, nK} :
          req' = [op |-> op, encodedProjectName |-> <<"-", "p">>,
                  path |-> IF op = "download" THEN path \o downloadSuffix ELSE path]
    /\ pc' = "handler"
    /\ loc' = NoLocals
    /\ log' = <<>>
    /\ resp' = NoResponse
    /\ UNCHANGED <<client, now, up, env, fs>>

NextStaged ==
    \/ UploadStart(1) \/ UploadMkdirTemp(1) \/ UploadMkdirSession(1) \/ UploadWrite(1)
    \/ ReceiveStaged \/ Complete
    \/ ListLocate \/ ListExists \/ ListReadDir \/ ListStatDone \/ ListRespond
    \/ ContentLocate \/ ContentExists \/ ContentStat \/ ContentRead
    \/ DownloadLocate \/ DownloadExists \/ DownloadStat \/ DownloadRead

SpecStaged == InitStaged /\ [][NextStaged]_vars

(***************************************************************************)
(* A caller that lists a directory and then reads or downloads one of the  *)
(* files of the listing by its FileInfo.path.                              *)
(***************************************************************************)
nAdotdotB == <<"a", ".", ".", "b">>

\* The project tree with a file whose name holds two dots in a row.
ListedTree ==
    (<<nP, nAdotdotB>> :> FileNode(<<104, 105>>, 2, Some(9))) @@ ProjectTree(3)

\* The directories the caller lists: the root, x, x written with a "."
\* segment and with a trailing "/", and the nested x/p.
ListedPaths ==
    { <<>>, nX, <<Dot, Slash>> \o nX, nX \o <<Slash>>, nX \o <<Slash>> \o nP }

InitListed ==
    /\ env = Env(TRUE, TRUE)
    /\ fs = ListedTree
    /\ req = NoRequest
    /\ pc = "idle"
    /\ loc = NoLocals
    /\ log = <<>>
    /\ resp = NoResponse
    /\ clientAtRest
    /\ now = 1
    /\ up = [i \in 1..MaxUploads |-> NoUpload]

\* List is called for one of the directories.
ReceiveList ==
    /\ pc = "idle"
    /\ \E path \in ListedPaths :
          req' = [op |-> "list", encodedProjectName |-> <<"-", "p">>, path |-> path]
    /\ pc' = "handler"
    /\ loc' = NoLocals
    /\ log' = <<>>
    /\ resp' = NoResponse
    /\ listing' = NoListed
    /\ UNCHANGED <<dialog, picker, chat, now, up, env, fs>>

\* ReadContent or Download is called with the path of an entry of type file
\* of the List response just received.
ReceiveListed ==
    /\ pc = "done" /\ req.op = "list" /\ resp.status = 200
    /\ \E i \in 1..Len(resp.files), op \in {"content", "download"} :
          /\ resp.files[i].type = "file"
          /\ req' = [op |-> op, encodedProjectName |-> req.encodedProjectName,
                     path |-> IF op = "download"
                              THEN resp.files[i].path \o downloadSuffix
                              ELSE resp.files[i].path]
          /\ listing' = [path |-> resp.files[i].path,
                        fullPath |-> loc.target \o <<Slash>> \o resp.files[i].name]
    /\ pc' = "handler"
    /\ loc' = NoLocals
    /\ log' = <<>>
    /\ resp' = NoResponse
    /\ UNCHANGED <<dialog, picker, chat, now, up, env, fs>>

NextListed ==
    \/ ReceiveList \/ ReceiveListed \/ Complete
    \/ ListLocate \/ ListExists \/ ListReadDir \/ ListStatDone \/ ListRespond
    \/ ContentLocate \/ ContentExists \/ ContentStat \/ ContentRead
    \/ DownloadLocate \/ DownloadExists \/ DownloadStat \/ DownloadRead

SpecListed == InitListed /\ [][NextListed]_vars

(***************************************************************************)
(* FileManagerDialog: the file list, the selected file and its preview.    *)
(* A fetch in flight is [id, kind, path]; the server answers it from the   *)
(* project tree, or the fetch fails.                                       *)
(***************************************************************************)
MaxFetches == 4

\* What GET /files?path= answers for a directory of the project: the
\* FileInfo of its entries, sorted.
filesReply(path) ==
    LET targetPath == IF path # <<>> THEN safeResolvePath(<<Slash>> \o nP, path)
                      ELSE <<Slash>> \o nP
        entries == CHOOSE es \in enumerations(fs, targetPath) : TRUE
    IN  sortFiles([i \in 1..Len(entries) |-> fileInfoOf(fs, targetPath, path, entries[i])])

\* What GET /files/{path} answers for a listed file: the FileContentResponse,
\* or an error.
contentReply(path) ==
    LET fullPath == safeResolvePath(<<Slash>> \o nP, path)
        mimeType == getMimeType(getFileExtension(path))
    IN  IF ~statSucceeds(fs, fullPath)
        THEN [ok |-> FALSE, error |-> "File not found", data |-> Undefined]
        ELSE LET stat == statOf(fs, fullPath)
                 decision == classify(mimeType, stat.size)
                 buffer == nodeAt(fs, fullPath).content
             IN  IF stat.isDirectory
                 THEN [ok |-> FALSE, error |-> "Cannot read directory content",
                       data |-> Undefined]
                 ELSE IF decision = "TooLarge"
                 THEN [ok |-> FALSE, error |-> "File too large to preview",
                       data |-> Undefined]
                 ELSE IF decision = "Unsupported"
                 THEN [ok |-> FALSE, error |-> "File type not supported for preview",
                       data |-> Undefined]
                 ELSE [ok |-> TRUE, error |-> "",
                       data |-> Some([content |-> IF decision = "UTF8"
                                                  THEN textContent(buffer)
                                                  ELSE base64Content(buffer),
                                      type |-> mimeType,
                                      encoding |-> IF decision = "UTF8" THEN "utf-8"
                                                   ELSE "base64",
                                      size |-> stat.size])]

\* loadFiles(path) up to its fetch: setLoading(true), setError(null).
loadFiles(d, path) ==
    [d EXCEPT !.loading = TRUE, !.error = Undefined,
              !.fetches = @ \union {[id |-> d.issued + 1, kind |-> "list", path |-> path]},
              !.issued = @ + 1]

\* setCurrentPath(path), setSelectedFile(null), setFileContent(null); the
\* effect on currentPath then calls loadFiles when the path has changed.
navigate(d, path) ==
    LET cleared == [d EXCEPT !.currentPath = path,
                             !.selectedFile = Undefined,
                             !.fileContent = Undefined]
    IN  IF path # d.currentPath THEN loadFiles(cleared, path) ELSE cleared

\* isOpen becomes true: the effect calls loadFiles(currentPath).
DialogOpen ==
    /\ ~dialog.isOpen
    /\ dialog' = loadFiles([dialog EXCEPT !.isOpen = TRUE], dialog.currentPath)
    /\ UNCHANGED <<listing, picker, chat, now, up, env, fs, req, pc, loc, log, resp>>

\* The fetch of loadFiles completes: setFiles(data.files), or setError when
\* the response is not ok or the fetch fails; finally setLoading(false).
DialogFilesArrive ==
    /\ \E f \in dialog.fetches, ok \in BOOLEAN :
          /\ f.kind = "list"
          /\ dialog' = [dialog EXCEPT
                          !.files = IF ok THEN filesReply(f.path) ELSE @,
                          !.error = IF ok THEN @ ELSE Some("Failed to load files"),
                          !.loading = FALSE,
                          !.fetches = @ \ {f}]
    /\ UNCHANGED <<listing, picker, chat, now, up, env, fs, req, pc, loc, log, resp>>

\* handleFileClick on a directory of the list.
DialogClickDirectory ==
    /\ dialog.isOpen
    /\ dialog.issued < MaxFetches
    /\ \E i \in 1..Len(dialog.files) :
          LET file == dialog.files[i]
              newPath == IF dialog.currentPath # <<>>
                         THEN dialog.currentPath \o <<Slash>> \o file.name
                         ELSE file.name
          IN  /\ file.type = "directory"
              /\ dialog' = navigate(dialog, newPath)
    /\ UNCHANGED <<listing, picker, chat, now, up, env, fs, req, pc, loc, log, resp>>

\* A click on Root or on a segment of the breadcrumb.
DialogClickBreadcrumb ==
    /\ dialog.isOpen
    /\ dialog.issued < MaxFetches
    /\ \E n \in 0..Len(SelectSeq(split(dialog.currentPath, Slash), LAMBDA seg : seg # <<>>)) :
          LET arr == SelectSeq(split(dialog.currentPath, Slash), LAMBDA seg : seg # <<>>)
          IN  dialog' = navigate(dialog, join(SubSeq(arr, 1, n), Slash))
    /\ UNCHANGED <<listing, picker, chat, now, up, env, fs, req, pc, loc, log, resp>>

\* handleFileClick on a file of the list, up to its fetch: the file is selected, the content cleared, the loading flag set.
DialogClickFile ==
    /\ dialog.isOpen
    /\ dialog.issued < MaxFetches
    /\ \E i \in 1..Len(dialog.files) :
          LET file == dialog.files[i]
          IN  /\ file.type # "directory"
              /\ dialog' = [dialog EXCEPT
                              !.selectedFile = Some(file),
                              !.contentLoading = TRUE,
                              !.contentError = Undefined,
                              !.fileContent = Undefined,
                              !.fetches = @ \union {[id |-> dialog.issued + 1,
                                                     kind |-> "content",
                                                     path |-> file.path]},
                              !.issued = @ + 1]
    /\ UNCHANGED <<listing, picker, chat, now, up, env, fs, req, pc, loc, log, resp>>

\* A fetch of handleFileClick completes, in any order: setFileContent(data),
\* or setContentError when the response is not ok or the fetch fails;
\* finally setContentLoading(false).
DialogContentArrives ==
    /\ \E f \in dialog.fetches, delivered \in BOOLEAN :
          /\ f.kind = "content"
          /\ LET reply == contentReply(f.path)
             IN  dialog' = [dialog EXCEPT
                    !.fileContent = IF delivered /\ reply.ok THEN reply.data ELSE @,
                    !.contentError = IF delivered /\ reply.ok THEN @
                                     ELSE IF delivered THEN Some(reply.error)
                                     ELSE Some("Failed to fetch"),
                    !.contentLoading = FALSE,
                    !.fetches = @ \ {f}]
    /\ UNCHANGED <<listing, picker, chat, now, up, env, fs, req, pc, loc, log, resp>>

\* renderFilePreview: what the preview shows.
renderFilePreview(d) ==
    IF d.selectedFile = Undefined \/ d.fileContent = Undefined THEN "null"
    ELSE IF d.contentLoading THEN "Loading..."
    ELSE IF d.contentError # Undefined THEN "contentError"
    ELSE LET selectedFile == d.selectedFile[1]
             fileContent == d.fileContent[1]
             ext == IF selectedFile.extension = Undefined THEN <<>>
                    ELSE toLowerCase(selectedFile.extension[1])
         IN  IF fileContent.type[1] = "image" /\ fileContent.encoding = "base64"
             THEN "img"
             ELSE IF ext = <<"p", "d", "f">> /\ fileContent.type = <<"application", "pdf">>
                     /\ fileContent.encoding = "base64"
             THEN "PDFPreview"
             ELSE IF ext = <<"m", "d">> /\ fileContent.encoding = "utf-8"
             THEN "ReactMarkdown"
             ELSE IF fileContent.encoding = "utf-8" THEN "pre"
             ELSE "Cannot preview this file type"

\* The preview pane of the dialog.
previewPane(d) ==
    IF d.selectedFile # Undefined THEN renderFilePreview(d)
    ELSE "Select a file to preview"

InitDialog ==
    /\ env = Env(TRUE, TRUE)
    /\ fs = ProjectTree(3)
    /\ req = NoRequest
    /\ pc = "idle"
    /\ loc = NoLocals
    /\ log = <<>>
    /\ resp = NoResponse
    /\ clientAtRest
    /\ now = 1
    /\ up = [i \in 1..MaxUploads |-> NoUpload]

NextDialog ==
    \/ DialogOpen \/ DialogFilesArrive
    \/ DialogClickDirectory \/ DialogClickBreadcrumb \/ DialogClickFile
    \/ DialogContentArrives

SpecDialog == InitDialog /\ [][NextDialog]_vars

(***************************************************************************)
(* FileUpload: handleFileSelect, one call per selection; calls overlap     *)
(* when a selection is made while an upload of an earlier one is awaited.  *)
(* events is the order of what the calls did: an upload request sent, its  *)
(* result, a call of onFilesProcessed.                                     *)
(***************************************************************************)
MaxSelections == 2
MaxFiles == 2

MAX_FILE_SIZE == 50 * 1024 * 1024

\* Mutant of validateFile: a file of exactly the maximum size is refused.
validateFile_inclusive(file) ==
    IF file.size >= MAX_FILE_SIZE
    THEN [valid |-> FALSE, error |-> Some("File too large")]
    ELSE [valid |-> TRUE, error |-> Undefined]

validateFile(file) ==
    IF file.size > MAX_FILE_SIZE
    THEN [valid |-> FALSE, error |-> Some("File too large")]
    ELSE [valid |-> TRUE, error |-> Undefined]

\* A ProcessedFile; filePath, error and _tempFile are optional.
createProcessedFile(file) ==
    [filename |-> file.name, size |-> file.size,
     mimeType |-> IF file.type # "" THEN file.type ELSE "application/octet-stream",
     filePath |-> Undefined, error |-> Undefined, tempFile |-> FALSE]

\* What the fetch of uploadFile may do: answer 200 with the staged path,
\* answer an error status with or without a message, or fail.
UploadOutcomes ==
    { [ok |-> TRUE, body |-> [success |-> TRUE, filePath |-> Some(<<"s", "/", "7">>),
                              error |-> Undefined]],
      [ok |-> FALSE, body |-> [success |-> FALSE, filePath |-> Undefined,
                               error |-> Some("ENOENT")]],
      [ok |-> FALSE, body |-> [success |-> FALSE, filePath |-> Undefined,
                               error |-> Undefined]],
      [ok |-> FALSE, body |-> Undefined] }

\* uploadFile: the UploadResponse it returns for an outcome of its fetch.
uploadFile(outcome) ==
    IF outcome.body = Undefined
    THEN [success |-> FALSE, filePath |-> Undefined, error |-> Some("Failed to fetch")]
    ELSE IF ~outcome.ok
    THEN [success |-> FALSE, filePath |-> Undefined,
          error |-> IF outcome.body.error # Undefined THEN outcome.body.error
                    ELSE Some("Upload failed: statusText")]
    ELSE outcome.body

\* The files a selection may hold: a small text file, a file of exactly the
\* maximum size, and one a byte larger.
PickerFiles ==
    { [name |-> <<"a">>, size |-> 3, type |-> "text/plain"],
      [name |-> <<"b">>, size |-> MAX_FILE_SIZE, type |-> ""],
      [name |-> <<"c">>, size |-> MAX_FILE_SIZE + 1, type |-> ""] }

Selections == UNION { [1..n -> PickerFiles] : n \in 0..MaxFiles }

\* The loop of handleFileSelect from file i up to its next await or its end:
\* a file that is refused, or one kept for later when there is no session,
\* is handled at once; an upload is awaited.
RECURSIVE runLoop(_, _)
runLoop(call, sessionId) ==
    IF call.i > Len(call.files) THEN [call EXCEPT !.pc = "done"]
    ELSE LET file == call.files[call.i]
             validation == validateFile(file)
         IN  IF ~validation.valid
             THEN runLoop([call EXCEPT
                             !.newFiles = Append(@, [createProcessedFile(file) EXCEPT
                                 !.error = IF validation.error # Undefined
                                           THEN validation.error
                                           ELSE Some("Unknown error")]),
                             !.i = @ + 1], sessionId)
             ELSE IF sessionId # Undefined /\ sessionId[1] # <<>>
             THEN [call EXCEPT !.pc = "uploading"]
             ELSE runLoop([call EXCEPT
                             !.newFiles = Append(@, [createProcessedFile(file) EXCEPT
                                                       !.tempFile = TRUE]),
                             !.i = @ + 1], sessionId)

\* What a call adds to events when it stops at call.pc: the request it sent,
\* or its one call of onFilesProcessed.
stopEvent(k, call) ==
    IF call.pc = "uploading"
    THEN <<[kind |-> "send", call |-> k, file |-> call.i, result |-> Undefined,
            files |-> <<>>]>>
    ELSE <<[kind |-> "onFilesProcessed", call |-> k, file |-> 0, result |-> Undefined,
            files |-> call.newFiles]>>

\* The input changes: handleFileSelect(files) runs up to its first await.
PickerSelect ==
    /\ Len(picker.calls) < MaxSelections
    /\ \E files \in Selections :
          IF Len(files) = 0
          THEN picker' = [picker EXCEPT
                  !.calls = Append(@, [files |-> files, i |-> 1, newFiles |-> <<>>,
                                       pc |-> "returned"])]
          ELSE LET k == Len(picker.calls) + 1
                   call == runLoop([files |-> files, i |-> 1, newFiles |-> <<>>,
                                    pc |-> "loop"], picker.sessionId)
               IN  picker' = [picker EXCEPT
                      !.calls = Append(@, call),
                      !.events = @ \o stopEvent(k, call)]
    /\ UNCHANGED <<listing, dialog, chat, now, up, env, fs, req, pc, loc, log, resp>>

\* The upload a call awaits returns: its entry is pushed and the loop goes on
\* up to the next await or the end.
PickerUploadReturns ==
    /\ \E k \in 1..Len(picker.calls), outcome \in UploadOutcomes :
          /\ picker.calls[k].pc = "uploading"
          /\ LET awaiting == picker.calls[k]
                 file == awaiting.files[awaiting.i]
                 uploadResult == uploadFile(outcome)
                 entry == IF uploadResult.success /\ uploadResult.filePath # Undefined
                                /\ uploadResult.filePath[1] # <<>>
                          THEN [createProcessedFile(file) EXCEPT
                                  !.filePath = uploadResult.filePath]
                          ELSE [createProcessedFile(file) EXCEPT
                                  !.error = IF uploadResult.error # Undefined
                                            THEN uploadResult.error
                                            ELSE Some("Upload failed")]
                 call == runLoop([awaiting EXCEPT !.newFiles = Append(@, entry),
                                                  !.i = @ + 1,
                                                  !.pc = "loop"], picker.sessionId)
             IN  picker' = [picker EXCEPT
                    !.calls[k] = call,
                    !.events = @ \o <<[kind |-> "result", call |-> k, file |-> awaiting.i,
                                       result |-> Some(uploadResult), files |-> <<>>]>>
                                   \o stopEvent(k, call)]
    /\ UNCHANGED <<listing, dialog, chat, now, up, env, fs, req, pc, loc, log, resp>>

InitPicker ==
    /\ env = Env(TRUE, TRUE)
    /\ fs = ProjectTree(3)
    /\ req = NoRequest
    /\ pc = "idle"
    /\ loc = NoLocals
    /\ log = <<>>
    /\ resp = NoResponse
    /\ listing = NoListed
    /\ dialog = NoDialog
    /\ picker \in { [NoPicker EXCEPT !.sessionId = id] :
                     id \in {Undefined, Some(<<>>), Some(<<"s">>)} }
    /\ chat = NoChat
    /\ now = 1
    /\ up = [i \in 1..MaxUploads |-> NoUpload]

NextPicker == PickerSelect \/ PickerUploadReturns

SpecPicker == InitPicker /\ [][NextPicker]_vars

(***************************************************************************)
(* ChatInput: the Enter key and the input method.                          *)
(***************************************************************************)
\* The deferred resets that may be pending at once, and the Enter keydowns
\* that are followed.
MaxTimers == 2
MaxKeys == 2

\* handleNewlineModeKeyDown: Shift+Enter sends.
handleNewlineModeKeyDown(shiftKey) == shiftKey

\* handleSendModeKeyDown: Enter without Shift sends.
handleSendModeKeyDown(shiftKey) == ~shiftKey

\* handleKeyDown for e.key = "Enter": whether onSubmit is called.
handleKeyDown(c, shiftKey) ==
    /\ ~c.isComposing
    /\ IF c.enterBehavior = "newline"
       THEN handleNewlineModeKeyDown(shiftKey)
       ELSE handleSendModeKeyDown(shiftKey)

\* compositionstart: the input method starts a composition;
\* handleCompositionStart sets the flag.
ChatCompositionStart ==
    /\ ~chat.composing
    /\ chat' = [chat EXCEPT !.composing = TRUE, !.isComposing = TRUE]
    /\ UNCHANGED <<env, fs, req, pc, loc, log, resp, now, up,
                   listing, dialog, picker>>

\* compositionend: the composition is over; handleCompositionEnd leaves the
\* flag as it is and schedules its reset with setTimeout(.., 0).
ChatCompositionEnd ==
    /\ chat.composing
    /\ chat.timers < MaxTimers
    /\ chat' = [chat EXCEPT !.composing = FALSE, !.timers = @ + 1]
    /\ UNCHANGED <<env, fs, req, pc, loc, log, resp, now, up,
                   listing, dialog, picker>>

\* A timer scheduled by handleCompositionEnd fires: setIsComposing(false),
\* whatever the input method is doing by then.
ChatResetFires ==
    /\ chat.timers > 0
    /\ chat' = [chat EXCEPT !.isComposing = FALSE, !.timers = @ - 1]
    /\ UNCHANGED <<env, fs, req, pc, loc, log, resp, now, up,
                   listing, dialog, picker>>

\* An Enter keydown on the textarea, with or without Shift: handleKeyDown.
\* The log keeps what was true when the key arrived and whether onSubmit
\* was called.
ChatKeyDownEnter ==
    /\ Len(chat.keys) < MaxKeys
    /\ \E shiftKey \in BOOLEAN :
           chat' = [chat EXCEPT !.keys = Append(@,
                       [shiftKey |-> shiftKey,
                        enterBehavior |-> chat.enterBehavior,
                        composing |-> chat.composing,
                        resetPending |-> chat.timers > 0,
                        onSubmit |-> handleKeyDown(chat, shiftKey)])]
    /\ UNCHANGED <<env, fs, req, pc, loc, log, resp, now, up,
                   listing, dialog, picker>>

\* The setting read by useEnterBehavior() changes.
ChatEnterBehaviorChanges ==
    /\ \E b \in {"send", "newline"} :
           /\ b # chat.enterBehavior
           /\ chat' = [chat EXCEPT !.enterBehavior = b]
    /\ UNCHANGED <<env, fs, req, pc, loc, log, resp, now, up,
                   listing, dialog, picker>>

InitChat ==
    /\ env = Env(TRUE, TRUE)
    /\ fs = ProjectTree(3)
    /\ req = NoRequest
    /\ pc = "idle"
    /\ loc = NoLocals
    /\ log = <<>>
    /\ resp = NoResponse
    /\ now = 1
    /\ up = [i \in 1..MaxUploads |-> NoUpload]
    /\ clientAtRest

NextChat ==
    \/ ChatCompositionStart
    \/ ChatCompositionEnd
    \/ ChatResetFires
    \/ ChatKeyDownEnter
    \/ ChatEnterBehaviorChanges

SpecChat == InitChat /\ [][NextChat]_vars

(***************************************************************************)
(* Vocabulary of the properties.                                           *)
(***************************************************************************)
\* The path the caller asked for: Download's parameter carries the route's
\* "/download" suffix.
callerPath == IF req.op = "download" THEN stripDownload(req.path) ELSE req.path

hasDotDotSegment(path) ==
    \E i \in 1..Len(split(path, Slash)) : split(path, Slash)[i] = <<Dot, Dot>>

\* The handler's required parameters are present.
paramsPresent ==
    /\ req.encodedProjectName # <<>>
    /\ req.op \in {"content", "download"} => req.path # <<>>

\* The project of the request is found by the ProjectLocator.
projectResolves ==
    getProjectPathFromEncodedName(req.encodedProjectName, env)[1] # Undefined

\* A call that belongs to the project lookup (registry, history directories).
isRegistryAccess(a) == a.path \in {claudeConfigPath, projectsDir}

\* A read of file content of the project tree.
isContentRead(a) == a.op \in {"readTextFile", "readBinaryFile"} /\ ~isRegistryAccess(a)

noContentRead == \A i \in 1..Len(log) : ~isContentRead(log[i])

\* path is root itself or lies textually under it
underRoot(root, path) == path = root \/ startsWith(path, root \o <<Slash>>)

served == pc = "done" /\ req.op \in Ops

(***************************************************************************)
(* C1                                                                      *)
(***************************************************************************)
\* C1 as stated: every request (List, ReadContent, Download) whose path has a
\* ".." segment or begins with "/" is answered 403, and no filesystem call at
\* all has been made for it.
C1_TraversalAlways403 ==
    (served /\ (hasDotDotSegment(callerPath) \/ startsWith(callerPath, <<Slash>>)))
        => (resp.status = 403 /\ log = <<>>)

\* C1 amended: a request with its parameters present and a resolvable project
\* whose path has a ".." segment or begins with "/" never touches the project
\* tree (its only filesystem calls are the project lookup's), and is answered 403.
C1_TraversalRejected ==
    (req.op \in Ops /\ paramsPresent /\ projectResolves
       /\ (hasDotDotSegment(callerPath) \/ startsWith(callerPath, <<Slash>>)))
        => /\ \A i \in 1..Len(log) : isRegistryAccess(log[i])
           /\ pc \in {"handler", "done"}
           /\ pc = "done" => resp.status = 403

C1_Witness ==
    /\ served /\ req.op = "download" /\ resp.status = 403
    /\ startsWith(callerPath, <<Slash>>)
    /\ Len(log) > 0

(***************************************************************************)
(* C2                                                                      *)
(***************************************************************************)
\* The resolver's result is root + "/" + rest, where rest is empty or has no
\* segment "", "." or "..".
resolvedUnder(root, resolved) ==
    /\ startsWith(resolved, root \o <<Slash>>)
    /\ LET rest == SubSeq(resolved, Len(root) + 2, Len(resolved))
       IN  \/ rest = <<>>
           \/ \A i \in 1..Len(split(rest, Slash)) :
                 split(rest, Slash)[i] \notin {<<>>, <<Dot>>, <<Dot, Dot>>}

\* C2: for every registry root and every path a caller sends, accepted by the
\* boundary check or not, safeResolvePath gives a path under root + "/" without
\* "", "." or ".." segments; and every path the handlers pass to exists, stat,
\* readDir or a read of the project tree is the root or lies textually under it.
C2_ResolvedUnderRoot ==
    /\ req.op \in Ops =>
          \A i \in 1..Len(Registry) :
             /\ resolvedUnder(Registry[i], safeResolvePath(Registry[i], req.path))
             /\ resolvedUnder(Registry[i], safeResolvePath(Registry[i], callerPath))
    /\ \A i \in 1..Len(log) :
          ~isRegistryAccess(log[i]) => underRoot(loc.projectPath, log[i].path)

C2_Witness ==
    /\ req.op = "content" /\ req.path = <<Dot, Slash>> \o nX
    /\ \E i \in 1..Len(log) : log[i] = Access("stat", <<Slash>> \o nP \o <<Slash>> \o nX)

(***************************************************************************)
(* C3, C4, C5                                                              *)
(***************************************************************************)
\* The reference table of the preview decision.
referenceDecision(mimeType, size) ==
    IF size > 10485760 THEN "TooLarge"
    ELSE IF \/ mimeType[1] = "text"
            \/ mimeType[1] = "application"
                 /\ mimeType[2] \in {"json", "javascript", "typescript", "xml"}
         THEN "UTF8"
    ELSE IF mimeType[1] = "image" \/ size <= 1048576 THEN "Base64"
    ELSE "Unsupported"

\* What ReadContent answered, as a decision.
answeredDecision ==
    CASE resp.status = 413 -> "TooLarge"
      [] resp.status = 415 -> "Unsupported"
      [] resp.status = 200 /\ resp.encoding = "utf-8" -> "UTF8"
      [] resp.status = 200 /\ resp.encoding = "base64" -> "Base64"
      [] OTHER -> "none"

\* ReadContent has been answered for a regular file that exists.
previewedFile ==
    /\ served /\ req.op = "content"
    /\ \E i \in 1..Len(log) : log[i] = Access("stat", loc.target)
    /\ statSucceeds(fs, loc.target)
    /\ nodeAt(fs, loc.target).isFile

previewedSize == byteLength(nodeAt(fs, loc.target).content)
previewedMime == getMimeType(getFileExtension(loc.filePath))

C5_StatBeforeRead ==
    req.op = "content" =>
       /\ \A j \in 1..Len(log) :
             isContentRead(log[j]) =>
                \E i \in 1..(j - 1) : log[i] = Access("stat", log[j].path)
       /\ (pc = "done" /\ resp.status \in {413, 415}) => noContentRead

C5_Witness ==
    /\ served /\ req.op = "content" /\ resp.status = 413
    /\ \E i \in 1..Len(log) : log[i].op = "stat"
    /\ noContentRead

(***************************************************************************)
(* C6, C7                                                                  *)
(***************************************************************************)
\* The request passed the parameter check, the lookup and the boundary check.
accepted == paramsPresent /\ projectResolves /\ ~isTraversal(callerPath)

\* The confined target of an accepted request.
confinedTarget ==
    LET root == getProjectPathFromEncodedName(req.encodedProjectName, env)[1][1]
    IN  IF req.op = "list" /\ req.path = <<>> THEN root
        ELSE safeResolvePath(root, callerPath)

\* C6: ReadContent and Download of an accepted request answer 404 when the
\* target does not exist and 400 when it is a directory, and read no content.
C6_AbsentOrDirectory ==
    (served /\ req.op \in {"content", "download"} /\ accepted) =>
       /\ ~hasNode(fs, confinedTarget) => (resp.status = 404 /\ noContentRead)
       /\ (hasNode(fs, confinedTarget) /\ nodeAt(fs, confinedTarget).isDirectory)
             => (resp.status = 400 /\ noContentRead)

C6_Witness ==
    /\ served /\ req.op = "download" /\ accepted
    /\ hasNode(fs, confinedTarget) /\ nodeAt(fs, confinedTarget).isDirectory
    /\ resp.status = 400
    /\ \E i \in 1..Len(log) : log[i].op = "stat"

\* C7: List of an accepted path whose directory does not exist answers 200 with
\* files = [] and currentPath = the path as sent, after the exists call alone:
\* nothing is enumerated or stat'ed.
C7_MissingDirectoryEmpty ==
    (served /\ req.op = "list" /\ accepted /\ ~hasNode(fs, confinedTarget)) =>
       /\ resp.status = 200
       /\ resp.files = <<>>
       /\ resp.currentPath = req.path
       /\ \A i \in 1..Len(log) :
             isRegistryAccess(log[i]) \/ log[i] = Access("exists", confinedTarget)

C7_Witness ==
    /\ served /\ req.op = "list" /\ accepted
    /\ req.path = nX \o <<Slash>> \o nH
    /\ ~hasNode(fs, confinedTarget)
    /\ resp.status = 200 /\ resp.files = <<>>
    /\ \E i \in 1..Len(log) : log[i].op = "exists"

(***************************************************************************)
(* C8, C9                                                                  *)
(***************************************************************************)
\* List has answered with the entries of an existing directory.
listed ==
    /\ served /\ req.op = "list" /\ resp.status = 200
    /\ \E i \in 1..Len(log) : log[i].op = "readDir" /\ ~isRegistryAccess(log[i])

\* C8: in a successful List response every directory precedes every file, and
\* within directories and within files the names ascend strictly in locale
\* order; so the response does not depend on the order of enumeration or of
\* the completion of the stats (the sorted sequence of a set of names is unique).
C8_ListingSorted ==
    listed =>
       /\ Len(resp.files) = Cardinality(dirEntries(fs, loc.target))
       /\ \A i, j \in 1..Len(resp.files) :
             i < j =>
                /\ resp.files[i].type \in {"directory", "file"}
                /\ ~(resp.files[i].type = "file" /\ resp.files[j].type = "directory")
                /\ resp.files[i].type = resp.files[j].type
                      => localeCompare(resp.files[i].name, resp.files[j].name) < 0

\* The directory was enumerated files first and in descending order of name.
C8_Witness ==
    /\ listed /\ Len(resp.files) = 4
    /\ loc.entries[1].name = nH /\ loc.entries[2].name = nFmd
    /\ loc.entries[3].name = nY /\ loc.entries[4].name = nX
    /\ resp.files[1].name = nX /\ resp.files[2].name = nY
    /\ resp.files[3].name = nFmd /\ resp.files[4].name = nH

\* The FileInfo List owes to the entry called name of directory dir.
owedFileInfo(dir, name, info) ==
    LET node == fs[Append(osResolve(dir), name)]
    IN  /\ info.name = name
        /\ info.path = (IF req.path = <<>> THEN name ELSE req.path \o <<Slash>> \o name)
        /\ info.type = (IF node.isDirectory THEN "directory" ELSE "file")
        /\ IF node.statOk
           THEN /\ info.size = (IF node.isFile THEN Some(byteLength(node.content))
                                ELSE Undefined)
                /\ info.modifiedTime # Undefined <=> node.mtime # Undefined
           ELSE /\ info.size = Undefined
                /\ info.modifiedTime = Undefined

\* C9: once the directory has been enumerated List answers 200, with exactly
\* one FileInfo per entry: name, path and type always; size and modifiedTime
\* from the stat when it succeeded, and neither when it failed.
C9_OneFileInfoPerEntry ==
    (served /\ req.op = "list" /\ accepted /\ readDirSucceeds(fs, confinedTarget)) =>
       /\ resp.status = 200
       /\ Len(resp.files) = Cardinality(dirEntries(fs, confinedTarget))
       /\ \A e \in dirEntries(fs, confinedTarget) :
             \E i \in 1..Len(resp.files) :
                /\ owedFileInfo(confinedTarget, e.name, resp.files[i])
                /\ \A j \in 1..Len(resp.files) : resp.files[j].name = e.name => j = i

C9_Witness ==
    /\ listed /\ req.path = nX
    /\ \E i, j \in 1..Len(resp.files) :
          /\ resp.files[i].name = nK /\ resp.files[i].type = "file"
          /\ resp.files[i].size = Undefined /\ resp.files[i].modifiedTime = Undefined
          /\ resp.files[j].name = nGpng /\ resp.files[j].size # Undefined
          /\ resp.files[j].modifiedTime # Undefined

(***************************************************************************)
(* C10                                                                     *)
(***************************************************************************)
\* C10: Download of an accepted request whose target is a regular file answers
\* 200 with the whole content of the file, whatever its size, and a
\* Content-Length equal to the number of bytes of the body.
C10_DownloadWholeFile ==
    (served /\ req.op = "download" /\ accepted
       /\ statSucceeds(fs, confinedTarget) /\ nodeAt(fs, confinedTarget).isFile) =>
          /\ resp.status = 200
          /\ resp.body = nodeAt(fs, confinedTarget).content
          /\ resp.contentLength = byteLength(resp.body)

C10_Witness ==
    /\ served /\ req.op = "download" /\ accepted
    /\ resp.status = 200
    /\ resp.contentLength = 10 * 1024 * 1024 + 1
    /\ resp.body.head = <<0, 255, 16>>

(***************************************************************************)
(* C11                                                                     *)
(***************************************************************************)
headerBuilt == pc = "done" /\ req.op = "download" /\ resp.status = 200

filenameStarParameter == <<"f", "i", "l", "e", "n", "a", "m", "e", "*">>

\* The header has the one-parameter form for name: the name between quotes,
\* each quote and backslash preceded by a backslash, and no filename*.
quotedForm(name, header) ==
    /\ header = attachmentFilename \o escapeQuotes(name) \o <<"\"">>
    /\ ~includes(header, filenameStarParameter)

\* The header has the two-parameter form for name, the fallback being given.
extendedForm(name, fallback, header) ==
    header = attachmentFilename \o fallback \o filenameStar \o encodeURIComponent(name)

\* C11 as stated: a filename of printable ASCII characters only yields the
\* one-parameter form; any other yields the two-parameter form whose fallback
\* is the name with every non-ASCII character, quote and backslash replaced
\* by "_".  Violated: an ASCII control character is replaced as well.
C11_NonAsciiReplaced ==
    headerBuilt =>
        LET name == downloadFilename(req.path)
            fallback == [i \in 1..Len(name) |->
                            IF name[i] \in NonAsciiChars \/ quoteOrBackslash(name[i])
                            THEN "_" ELSE name[i]]
        IN  IF \A i \in 1..Len(name) : ~outsidePrintable(name[i])
            THEN quotedForm(name, resp.contentDisposition)
            ELSE extendedForm(name, fallback, resp.contentDisposition)

\* C11, amended: a filename of printable ASCII characters only yields the
\* one-parameter form; any other yields the two-parameter form whose fallback
\* is the name with every character outside printable ASCII (control
\* characters included), every quote and every backslash replaced by "_",
\* and whose filename* is the percent-encoded original name.
C11_DispositionForms ==
    headerBuilt =>
        LET name == downloadFilename(req.path)
            fallback == [i \in 1..Len(name) |->
                            IF outsidePrintable(name[i]) \/ quoteOrBackslash(name[i])
                            THEN "_" ELSE name[i]]
        IN  IF \A i \in 1..Len(name) : ~outsidePrintable(name[i])
            THEN quotedForm(name, resp.contentDisposition)
            ELSE extendedForm(name, fallback, resp.contentDisposition)

\* A header was built for a name holding a quote, a control character and a
\* non-ASCII character.
C11_Witness ==
    /\ headerBuilt
    /\ LET name == downloadFilename(req.path)
       IN  /\ \E i \in 1..Len(name) : name[i] = "\""
           /\ \E i \in 1..Len(name) : name[i] \in ControlChars
           /\ \E i \in 1..Len(name) : name[i] \in NonAsciiChars

(***************************************************************************)
(* C12                                                                     *)
(***************************************************************************)
lacksFileOrSession(form) ==
    \/ form.file = Undefined
    \/ form.sessionId = Undefined
    \/ form.sessionId[1] = <<>>

\* C12: an Upload whose form lacks the file or the session identifier (absent
\* or empty) is answered 400 with success = false; its handler never goes
\* beyond the validation, so no path is built from a defaulted session
\* identifier, no directory is created and no file is written.
C12_InvalidUploadRejected ==
    \A i \in 1..MaxUploads :
        (up[i].pc # "none" /\ lacksFileOrSession(up[i].form)) =>
            /\ up[i].pc \in {"received", "done"}
            /\ up[i].filePath = <<>>
            /\ fs = UploadTree
            /\ up[i].pc = "done" =>
                  /\ up[i].resp.status = 400
                  /\ ~up[i].resp.success
                  /\ up[i].resp.filePath = <<>>

\* An upload with a file and an empty session identifier has been answered.
C12_Witness ==
    /\ up[1].pc = "done"
    /\ up[1].form.file # Undefined
    /\ up[1].form.sessionId = Some(<<>>)
    /\ up[1].form.workingDirectory # Undefined

(***************************************************************************)
(* C13                                                                     *)
(***************************************************************************)
uploadSucceeded(i) == up[i].pc = "done" /\ up[i].resp.success

\* <sessionId>/<unixMillis>_<name>, name being the original name with every
\* character outside [A-Za-z0-9.-] replaced by "_"
stagedName(form, millis) ==
    LET letters == {"a", "b", "d", "g", "i", "m", "n", "p", ".", "-"}
        name == [k \in 1..Len(form.file[1].name) |->
                    IF form.file[1].name[k] \in letters THEN form.file[1].name[k] ELSE "_"]
    IN  form.sessionId[1] \o <<"/">> \o decimal(millis) \o <<"_">> \o name

\* C13: a successful Upload has written exactly the uploaded bytes to
\* <workingDirectory, or the current directory when none is given>/
\* .claude-temp/<sessionId>/<unixMillis>_<name>, and the filePath it returns
\* is that location relative to the working directory: it does not start
\* with the working directory's absolute path.
C13_StagedLocation ==
    \A i \in 1..MaxUploads :
        uploadSucceeded(i) =>
            LET form == up[i].form
                base == IF form.workingDirectory = Undefined THEN cwd
                        ELSE form.workingDirectory[1]
                relative == claudeTemp \o <<"/">> \o stagedName(form, now)
                location == base \o <<"/">> \o relative
            IN  /\ hasNode(fs, location)
                /\ nodeAt(fs, location).isFile
                /\ nodeAt(fs, location).content = form.file[1].content
                /\ up[i].resp.status = 200
                /\ up[i].resp.filePath = relative
                /\ ~startsWith(up[i].resp.filePath, base)

\* An upload without working directory, whose name holds a character that is
\* replaced, has succeeded at a time of several digits.
C13_Witness ==
    /\ uploadSucceeded(1)
    /\ up[1].form.workingDirectory = Undefined
    /\ up[1].form.file[1].name = <<"a", " ", "b">>
    /\ up[1].form.file[1].content = Bytes(<<195, 169, 255>>, 3)
    /\ up[1].timestamp = 1024

(***************************************************************************)
(* C14                                                                     *)
(***************************************************************************)
\* C14 as stated: two uploads with the same sessionId and working directory
\* never write to the same staged path, whatever the interleaving.  Violated
\* by two uploads that read Date.now() in the same millisecond with names
\* that are equal once sanitised.
C14_NoSharedStagedPath ==
    \A i, j \in 1..MaxUploads :
        ( /\ i # j
          /\ uploadSucceeded(i) /\ uploadSucceeded(j)
          /\ up[i].form.sessionId = up[j].form.sessionId
          /\ up[i].form.workingDirectory = up[j].form.workingDirectory )
        => osResolve(up[i].filePath) # osResolve(up[j].filePath)

(***************************************************************************)
(* C15                                                                     *)
(***************************************************************************)
locatorAnswered == req.op = "locate" /\ pc \in {"located", "done"}

\* Each "/", "\", ":" and "." replaced by "-"
hyphenated(path) ==
    [i \in 1..Len(path) |-> IF path[i] \in {"/", "\\", ":", "."} THEN "-" ELSE path[i]]

\* The locator has answered with the first path of the registry that
\* satisfies matches, or NotFound (404) when none does.
answersFirst(matches) ==
    IF matches = {}
    THEN pc = "done" /\ resp.status = 404
    ELSE /\ pc = "located"
         /\ loc.projectPath = env.registry[CHOOSE i \in matches : \A j \in matches : i <= j]

\* C15 as stated: the locator returns the first registry path whose encoding
\* equals the encoded name, and NotFound when no registry path matches or
\* the home directory or registry is unavailable.  Violated: a matching path
\* without a directory of that name under ~/.claude/projects is not returned.
C15_FirstEncodingMatch ==
    locatorAnswered =>
        answersFirst({ i \in 1..Len(env.registry) :
                         /\ env.home /\ env.config
                         /\ hyphenated(env.registry[i]) = req.encodedProjectName })

\* C15, amended: the locator returns the first registry path, in registry
\* order, whose encoding (one trailing "/" removed, then each "/", "\", ":"
\* and "." replaced by "-") equals the encoded name exactly and is the name
\* of a directory of ~/.claude/projects; it returns NotFound when no
\* registry path qualifies, or when the home directory, the registry or the
\* listing of ~/.claude/projects is unavailable.
C15_FirstRecordedMatch ==
    locatorAnswered =>
        answersFirst({ i \in 1..Len(env.registry) :
                         /\ env.home /\ env.config /\ env.history # Undefined
                         /\ LET path == env.registry[i]
                                trimmed == IF path[Len(path)] = "/"
                                           THEN SubSeq(path, 1, Len(path) - 1) ELSE path
                            IN  hyphenated(trimmed) = req.encodedProjectName
                         /\ req.encodedProjectName \in env.history[1] })

\* Two different registry paths have the requested encoding, and the first
\* of them was returned.
C15_Witness ==
    /\ locatorAnswered /\ pc = "located"
    /\ Len(env.registry) = 2
    /\ env.registry[1] # env.registry[2]
    /\ hyphenated(env.registry[1]) = req.encodedProjectName
    /\ hyphenated(env.registry[2]) = req.encodedProjectName
    /\ loc.projectPath = env.registry[1]

(***************************************************************************)
(* C16                                                                     *)
(***************************************************************************)
\* C16 as stated: a List, ReadContent or Download request whose encoded
\* project name is unsafe (empty, or holding one of < > : " | ? *, a control
\* character, "/" or "\") is answered 403.  Violated: the handlers never
\* call validateEncodedProjectName; an empty name is answered 400 and any
\* other unsafe name 404.
C16_UnsafeNameRejected ==
    (req.op \in Ops /\ pc = "done" /\ ~validateEncodedProjectName(req.encodedProjectName))
        => resp.status = 403

(***************************************************************************)
(* C17                                                                     *)
(***************************************************************************)
genericMessages == {"Failed to list files", "Failed to read file", "Failed to download file"}

\* C17 as stated: a failure of the filesystem during List, ReadContent or
\* Download is answered once with a JSON error; when the answer is 500 its
\* message is generic and carries nothing of the underlying error, and no
\* file list or content comes with it.  Violated: the catch blocks return
\* the message of the Error that was thrown, which names the failed call's
\* absolute path.
C17_InternalIsGeneric ==
    (req.op \in Ops /\ pc = "done" /\ resp.status = 500) =>
        /\ resp.error \in genericMessages
        /\ resp.detail = <<>>
        /\ resp.files = <<>>
        /\ resp.body = NoBytes

(***************************************************************************)
(* C18                                                                     *)
(***************************************************************************)
\* What a valid upload may create: its two directories and its staged file.
stagingArea(form, millis) ==
    { osResolve(tempDirOf(form)), osResolve(sessionDirOf(form)),
      osResolve(filePathOf(form, millis)) }

\* Between two filesystems, nothing differs outside area; inside it,
\* directories are only created and the one file only written.
mutatesWithin(before, after, area, file) ==
    /\ DOMAIN before \subseteq DOMAIN after
    /\ \A k \in DOMAIN after :
          \/ k \in DOMAIN before /\ after[k] = before[k]
          \/ k \in area /\ k # file /\ k \notin DOMAIN before /\ after[k].isDirectory
          \/ k = file /\ after[k].isFile

\* C18: the filesystem changes only in a step of an Upload whose form holds a
\* file and a session identifier, and then only by the creation of the
\* .claude-temp directory or of the session directory or by the writing of
\* the staged file; every step of List, ReadContent and Download, whether it
\* ends in success or in an error, leaves the filesystem as it was.
C18_OnlyUploadMutates ==
    [][ fs' # fs =>
          \E i \in 1..MaxUploads :
             /\ up'[i] # up[i]
             /\ pc' = pc /\ resp' = resp
             /\ ~lacksFileOrSession(up[i].form)
             /\ mutatesWithin(fs, fs', stagingArea(up[i].form, now),
                              osResolve(filePathOf(up[i].form, now))) ]_vars

\* After an upload has staged its file, a List of the session directory has
\* been answered with the staged file.
C18_Witness ==
    /\ uploadSucceeded(1)
    /\ fs # UploadTree
    /\ req.op = "list" /\ pc = "done" /\ resp.status = 200
    /\ Len(resp.files) = 1

(***************************************************************************)
(* C19                                                                     *)
(***************************************************************************)
\* path is the entry's name when nothing was asked for and
\* <currentPath>/<name> otherwise; it neither begins with "/" nor holds a
\* ".." segment.
rootRelative(info) ==
    /\ info.path = (IF resp.currentPath = <<>> THEN info.name
                    ELSE resp.currentPath \o <<Slash>> \o info.name)
    /\ ~startsWith(info.path, <<Slash>>)
    /\ \A s \in 1..Len(split(info.path, Slash)) : split(info.path, Slash)[s] # <<Dot, Dot>>

\* C19 as stated: every FileInfo.path of a List response is root-relative
\* and never contains the project's absolute root path.  Violated: below a
\* directory of the project whose own relative path spells the root path,
\* the paths contain it.
C19_NeverContainsRoot ==
    listed =>
        \A i \in 1..Len(resp.files) :
           /\ rootRelative(resp.files[i])
           /\ ~includes(resp.files[i].path, loc.projectPath)

\* C19, amended: every FileInfo.path of a List response equals the entry
\* name when the listed path is empty and <currentPath>/<name> otherwise; it
\* never begins with "/", never contains a ".." segment and is never
\* prefixed with the project's absolute root path, whose text occurs in it
\* only where the caller's path or the entry's name spells it.
C19_RootRelativePaths ==
    listed =>
        \A i \in 1..Len(resp.files) :
           /\ rootRelative(resp.files[i])
           /\ resp.currentPath = req.path
           /\ ~startsWith(resp.files[i].path, loc.projectPath)
           /\ includes(resp.files[i].path, loc.projectPath)
                 => \/ includes(req.path \o <<Slash>>, loc.projectPath)
                    \/ includes(<<Slash>> \o resp.files[i].name, loc.projectPath)

\* The listing of a directory reached by a path of two pieces holds a file
\* and a directory.
C19_Witness ==
    /\ listed
    /\ req.path = <<Dot>> \o <<Slash>> \o nX
    /\ \E i, j \in 1..Len(resp.files) :
          /\ resp.files[i].path = req.path \o <<Slash>> \o nGpng
          /\ resp.files[j].path = req.path \o <<Slash>> \o nP

(***************************************************************************)
(* C20                                                                     *)
(***************************************************************************)
\* atob: the bytes of a base64 text
RECURSIVE atob(_)
atob(text) ==
    IF Len(text) < 4 THEN <<>>
    ELSE LET value(c) == (CHOOSE n \in 1..64 : base64Alphabet[n] = c) - 1
             a == value(text[1])
             b == value(text[2])
         IN  (IF text[3] = "="
              THEN <<a * 4 + b \div 16>>
              ELSE IF text[4] = "="
              THEN <<a * 4 + b \div 16, (b % 16) * 16 + value(text[3]) \div 4>>
              ELSE <<a * 4 + b \div 16, (b % 16) * 16 + value(text[3]) \div 4,
                     (value(text[3]) % 4) * 64 + value(text[4])>>)
             \o atob(SubSeq(text, 5, Len(text)))

\* The UTF-8 encoding of a sequence of code points
RECURSIVE utf8Encode(_)
utf8Encode(points) ==
    IF points = <<>> THEN <<>>
    ELSE LET p == Head(points)
         IN  (IF p < 128 THEN <<p>>
              ELSE IF p < 2048 THEN <<192 + (p \div 64), 128 + (p % 64)>>
              ELSE IF p < 65536
              THEN <<224 + (p \div 4096), 128 + ((p \div 64) % 64), 128 + (p % 64)>>
              ELSE <<240 + (p \div 262144), 128 + ((p \div 4096) % 64),
                     128 + ((p \div 64) % 64), 128 + (p % 64)>>)
             \o utf8Encode(Tail(points))

\* The bytes a client obtains from a content by the encoding that came with it.
decodedContent(content, encoding) ==
    [head |-> IF encoding = "base64" THEN atob(content.text) ELSE utf8Encode(content.text),
     pad |-> content.pad]

\* Two buffers hold the same bytes.
sameBytes(a, b) ==
    /\ byteLength(a) = byteLength(b)
    /\ \A i \in 1..(Len(a.head) + Len(b.head)) :
          (IF i <= Len(a.head) THEN a.head[i] ELSE 0) = (IF i <= Len(b.head) THEN b.head[i] ELSE 0)

\* ReadContent has been answered for the file an upload staged in the
\* project /p, under the path the upload returned, which has no ".." in it.
stagedFileRead ==
    /\ uploadSucceeded(1)
    /\ up[1].form.workingDirectory = Some(<<"/", "p">>)
    /\ ~includes(up[1].resp.filePath, <<Dot, Dot>>)
    /\ req.op = "content" /\ req.path = up[1].resp.filePath /\ pc = "done"

errorConditions ==
    LET located == projectResolves
        present == located /\ hasNode(fs, confinedTarget)
        isDir == present /\ nodeAt(fs, confinedTarget).isDirectory
        size == byteLength(nodeAt(fs, confinedTarget).content)
        mime == getMimeType(getFileExtension(callerPath))
    IN  << << req.encodedProjectName = <<>> \/ req.path = <<>>, 400 >>,
           << ~located, 404 >>,
           << startsWith(callerPath, <<Slash>>) \/ includes(callerPath, <<Dot, Dot>>), 403 >>,
           << located /\ ~present, 404 >>,
           << isDir, 400 >>,
           << req.op = "content" /\ present /\ ~isDir /\ size > 10485760, 413 >>,
           << req.op = "content" /\ present /\ ~isDir
                /\ mime[1] # "text"
                /\ ~(mime[1] = "application"
                       /\ mime[2] \in {"json", "javascript", "typescript", "xml"})
                /\ mime[1] # "image"
                /\ size > 1048576, 415 >> >>

\* The conditions that hold, by their place in the order.
holding == { k \in 1..Len(errorConditions) : errorConditions[k][1] }

\* The status of the first condition that holds; 200 when none does.
firstApplicable ==
    IF holding = {} THEN 200
    ELSE errorConditions[CHOOSE k \in holding : \A j \in holding : k <= j][2]

\* The confined target cannot be stat'ed although it is enumerated: the
\* Runtime's answer for it is none of the conditions of the order.
unstatable ==
    /\ projectResolves
    /\ hasNode(fs, confinedTarget) /\ ~nodeAt(fs, confinedTarget).statOk

\* C21: the status of a ReadContent or Download response is that of the first
\* condition that holds in the order: missing name or path 400, project not
\* resolvable 404, traversal path 403, target absent 404, target a directory
\* 400, and for ReadContent size over the ceiling 413, type unsupported 415;
\* with none holding the response is 200.
C21_FirstConditionDecides ==
    (served /\ req.op \in {"content", "download"} /\ ~unstatable)
        => resp.status = firstApplicable

\* ReadContent answered 413 where the type is unsupported as well.
C21_Witness ==
    /\ served /\ req.op = "content"
    /\ {6, 7} \subseteq holding
    /\ resp.status = 413
(***************************************************************************)
(* C22                                                                     *)
(***************************************************************************)
\* C22 as stated: for every upload with a file and a session identifier, the
\* location written to, once its "." and ".." segments are resolved, lies
\* inside <base>/.claude-temp/.  Violated by the session identifier "../x",
\* whose file is written to <base>/x.
C22_StagedInsideArea ==
    \A i \in 1..MaxUploads :
        uploadSucceeded(i) =>
            LET form == up[i].form
                base == IF form.workingDirectory = Undefined THEN cwd
                        ELSE form.workingDirectory[1]
                area == osResolve(base \o <<"/">> \o claudeTemp)
                written == osResolve(up[i].filePath)
            IN  /\ Len(written) > Len(area)
                /\ SubSeq(written, 1, Len(area)) = area
                /\ hasNode(fs, up[i].filePath)
(***************************************************************************)
(* C24                                                                     *)
(***************************************************************************)
\* The printable ASCII characters, U+0020 to U+007E (the grave accent, which
\* no name of the model holds, is not written).
printableAscii ==
    uriUnescaped \union
    {" ", "\"", "#", "$", "%", "&", "+", ",", "/", ":", ";", "<", "=", ">",
     "?", "@", "[", "\\", "]", "^", "{", "|", "}"}

\* The place of the quote that ends a quoted string whose content begins at
\* i, a backslash taking the character after it with it; 0 when none ends it.
RECURSIVE closingQuote(_, _)
closingQuote(s, i) ==
    IF i > Len(s) THEN 0
    ELSE IF s[i] = "\\" THEN closingQuote(s, i + 2)
    ELSE IF s[i] = "\"" THEN i
    ELSE closingQuote(s, i + 1)

\* The characters of the quoted string of s that begins at i and ends at
\* close, each backslash pair taken as the character it escapes.
RECURSIVE quotedValue(_, _, _)
quotedValue(s, i, close) ==
    IF i >= close THEN <<>>
    ELSE IF s[i] = "\\" THEN <<s[i + 1]>> \o quotedValue(s, i + 2, close)
    ELSE <<s[i]>> \o quotedValue(s, i + 1, close)

\* C24: the Content-Disposition value of a Download holds printable ASCII
\* characters only, and the quoted string of its filename parameter ends
\* where the filename ends: it reads back as the filename (ASCII names) or
\* as a name of the same length without quote or backslash (other names),
\* and what follows it is nothing, or the filename* parameter alone, made of
\* unreserved characters and percent escapes.
C24_HeaderWellFormed ==
    headerBuilt =>
        LET header == resp.contentDisposition
            name == downloadFilename(callerPath)
            open == Len(attachmentFilename) + 1
            close == closingQuote(header, open)
            value == quotedValue(header, open, close)
            rest == SubSeq(header, close, Len(header))
            extended == SubSeq(rest, Len(filenameStar) + 1, Len(rest))
        IN  /\ \A i \in 1..Len(header) : header[i] \in printableAscii
            /\ SubSeq(header, 1, Len(attachmentFilename)) = attachmentFilename
            /\ close # 0
            /\ Len(value) = Len(name)
            /\ \A i \in 1..Len(name) : name[i] \in printableAscii => value[i] \in {name[i], "_"}
            /\ \/ /\ rest = <<"\"">>
                  /\ value = name
               \/ /\ SubSeq(rest, 1, Len(filenameStar)) = filenameStar
                  /\ \A i \in 1..Len(value) : value[i] \notin {"\"", "\\"}
                  /\ \A i \in 1..Len(extended) :
                        extended[i] \in uriUnescaped \union {"%"}

\* A header was built for a name made of a backslash, a quote and a line feed.
C24_Witness ==
    /\ headerBuilt
    /\ downloadFilename(callerPath) = <<"\\", "\"", "U+000A">>
    /\ includes(resp.contentDisposition, <<"%", "0", "A">>)
(***************************************************************************)
(* C23                                                                     *)
(***************************************************************************)
\* ReadContent or Download was called with the path of a listed file and has
\* gone beyond its parameter, lookup and boundary checks, or has answered.
listedFileRequested == req.op \in {"content", "download"} /\ pc # "handler"

\* The name of the listed entry.
listedName ==
    SubSeq(listing.path, lastIndexOf(listing.path, Slash) + 1, Len(listing.path))

\* The request passed the boundary check and its target is, once resolved,
\* the path List used for the entry.
coherent ==
    /\ ~(pc = "done" /\ resp.status = 403)
    /\ osResolve(loc.target) = osResolve(listing.fullPath)

\* C23 as stated: for every entry of type file of a List response, whatever
\* its name, ReadContent and Download with the entry's FileInfo.path pass the
\* boundary check and resolve to the absolute path List used for the entry.
\* Violated by the entry a..b, which the boundary check rejects.
C23_EveryListedFileReadable ==
    listedFileRequested => coherent

\* C23, amended: for every entry of type file whose name does not contain
\* "..", ReadContent and Download with the entry's FileInfo.path pass the
\* boundary check and resolve to the absolute path List used for the entry;
\* for an entry whose name contains "..", both are answered 403 and nothing
\* of the project tree is accessed.
C23_ListedFileReadable ==
    listedFileRequested =>
        IF includes(listedName, <<Dot, Dot>>)
        THEN /\ pc = "done" /\ resp.status = 403
             /\ \A i \in 1..Len(log) : isRegistryAccess(log[i])
        ELSE coherent

\* A file of the nested directory, listed through a path with a trailing
\* "/", was read back.
C23_Witness ==
    /\ listedFileRequested /\ req.op = "content"
    /\ callerPath = nX \o <<Slash, Slash>> \o nGpng
    /\ pc = "done" /\ resp.status = 200
    /\ loc.target = <<Slash>> \o nP \o <<Slash>> \o nX \o <<Slash>> \o nGpng
(***************************************************************************)
(* C25                                                                     *)
(***************************************************************************)
\* C25 as stated: whenever the dialog holds a file content for display
\* (a file is selected and fileContent is set), it is the response to the
\* content request of the selected file.  Violated: the response of an
\* earlier click arrives after a later click and is stored as it is.
C25_ContentOfSelectedFile ==
    (dialog.selectedFile # Undefined /\ dialog.fileContent # Undefined)
        => /\ contentReply(dialog.selectedFile[1].path).ok
           /\ dialog.fileContent = contentReply(dialog.selectedFile[1].path).data

(***************************************************************************)
(* C26                                                                     *)
(***************************************************************************)
\* The content request of the selected file is in flight.
contentPending ==
    /\ dialog.selectedFile # Undefined
    /\ \E f \in dialog.fetches :
          f.kind = "content" /\ f.path = dialog.selectedFile[1].path

\* The last content request to complete failed, for the selected file.
contentFailed ==
    /\ dialog.selectedFile # Undefined
    /\ ~contentPending
    /\ dialog.fetches = {}
    /\ dialog.contentError # Undefined

\* C26 as stated: while the content request of the selected file is pending
\* the preview pane shows the loading indicator, and when it has failed the
\* pane shows the error message.  Violated: renderFilePreview returns null
\* as long as fileContent is null, which it is in both cases.
C26_LoadingAndErrorShown ==
    /\ contentPending => previewPane(dialog) = "Loading..."
    /\ contentFailed => previewPane(dialog) = "contentError"
(***************************************************************************)
(* C27                                                                     *)
(***************************************************************************)
\* What call k did, in order.
eventsOf(k) == SelectSeq(picker.events, LAMBDA e : e.call = k)

\* The selected files of call k for which an upload is owed: at most 50 MB,
\* with a session identifier present.
owedUploads(k) ==
    { j \in 1..Len(picker.calls[k].files) :
        /\ picker.calls[k].files[j].size <= 52428800
        /\ picker.sessionId \notin {Undefined, Some(<<>>)} }

\* The events of a call are: for each upload in turn its request and then
\* its result, the files in selection order, and last, at most once, the
\* call of onFilesProcessed.
oneAtATime(events) ==
    \A n \in 1..Len(events) :
        /\ events[n].kind = "send" =>
              /\ \A m \in 1..(n - 1) : events[m].kind # "onFilesProcessed"
              /\ \A m \in 1..(n - 1) : events[m].file < events[n].file
              /\ n > 1 => events[n - 1].kind = "result"
        /\ events[n].kind = "result" =>
              /\ n > 1
              /\ events[n - 1].kind = "send" /\ events[n - 1].file = events[n].file
        /\ events[n].kind = "onFilesProcessed" => n = Len(events)

\* The ProcessedFile owed to file j of call k, given the results received.
entryAsOwed(k, j, entry) ==
    LET file == picker.calls[k].files[j]
        results == SelectSeq(eventsOf(k), LAMBDA e : e.kind = "result" /\ e.file = j)
    IN  /\ entry.filename = file.name /\ entry.size = file.size
        /\ IF j \notin owedUploads(k)
           THEN /\ results = <<>>
                /\ entry.filePath = Undefined
                /\ (entry.error # Undefined) <=> (file.size > 52428800)
           ELSE /\ Len(results) = 1
                /\ IF results[1].result[1].success
                   THEN entry.filePath = results[1].result[1].filePath
                        /\ entry.error = Undefined
                   ELSE entry.filePath = Undefined /\ entry.error # Undefined

\* C27: for every call of handleFileSelect with files, uploads are requested
\* only for files of at most 50 MB and only with a session identifier, one at
\* a time in selection order; onFilesProcessed is called once, after every
\* file is handled and not before, with exactly one ProcessedFile per
\* selected file in selection order; a failed upload gives an entry with an
\* error and the files after it are still handled.
C27_OneEntryPerSelectedFile ==
    \A k \in 1..Len(picker.calls) :
        LET call == picker.calls[k]
            events == eventsOf(k)
            sent == { events[n].file : n \in { m \in 1..Len(events) : events[m].kind = "send" } }
            delivered == SelectSeq(events, LAMBDA e : e.kind = "onFilesProcessed")
        IN  /\ oneAtATime(events)
            /\ sent \subseteq owedUploads(k)
            /\ call.pc = "returned" => events = <<>> /\ call.files = <<>>
            /\ call.pc = "uploading" => delivered = <<>> /\ call.i \in sent
            /\ call.pc = "done" =>
                  /\ sent = owedUploads(k)
                  /\ Len(delivered) = 1
                  /\ Len(delivered[1].files) = Len(call.files)
                  /\ \A j \in 1..Len(call.files) :
                        entryAsOwed(k, j, delivered[1].files[j])

\* A call with two files, the first of exactly 50 MB, has delivered after a
\* failed upload of the first and a successful upload of the second, while
\* another call was made in between.
C27_Witness ==
    /\ Len(picker.calls) = 2
    /\ picker.calls[1].pc = "done"
    /\ Len(picker.calls[1].files) = 2
    /\ picker.calls[1].files[1].size = 52428800
    /\ picker.calls[1].newFiles[1].error # Undefined
    /\ picker.calls[1].newFiles[2].filePath # Undefined
    /\ \E n \in 1..Len(picker.events) :
          /\ picker.events[n].call = 2
          /\ \E m \in (n + 1)..Len(picker.events) : picker.events[m].call = 1

(***************************************************************************)
(* C28: in ChatInput an Enter keydown calls onSubmit exactly when no       *)
(* composition is active and either the mode is send and Shift is not held *)
(* or the mode is newline and Shift is held; an Enter keydown that arrives *)
(* during a composition, or after compositionend and before the deferred   *)
(* reset of the composing flag has run, never calls onSubmit.              *)
(***************************************************************************)
\* The combination of mode and Shift that sends.
sendingKey(k) ==
    \/ k.enterBehavior = "send" /\ ~k.shiftKey
    \/ k.enterBehavior = "newline" /\ k.shiftKey

\* The key arrived while the input method was composing, or while a reset
\* scheduled by a compositionend had not run yet.
duringComposition(k) == k.composing \/ k.resetPending

C28_EnterSubmitsOutsideComposition ==
    \A i \in 1..Len(chat.keys) :
        LET k == chat.keys[i]
        IN  /\ duringComposition(k) => ~k.onSubmit
            /\ ~duringComposition(k) => (k.onSubmit <=> sendingKey(k))

=============================================================================
